---- MODULE Spec2Model ----
(***************************************************************************)
(* Juniper EX configuration generators (ConfGen).                          *)
(*                                                                         *)
(*   MassGen/files (6)/juniper_excel_to_config.py   inventory generator    *)
(*   OOB-Config-Gen/V3/files (2)/juniper_excel_to_config.py  single device *)
(*   OOB-Jinja2/files (3)/generate_configs.py       template generator     *)
(*                                                                         *)
(* Text.  A Python string is a sequence of chunks whose concatenation is   *)
(* the text.  Every cell value, and every literal the code compares a cell *)
(* with or searches in a cell, is chunked per character, so strip, lower,  *)
(* upper, split, replace, startswith and the `in` substring test are       *)
(* computed character by character.  The fixed text of an f-string         *)
(* template is a single chunk.  A line of output is such a sequence; the   *)
(* empty line is <<>>.                                                     *)
(***************************************************************************)
EXTENDS Integers, Sequences, FiniteSets, TLC

(***************************************************************************)
(* Python / pandas values                                                  *)
(***************************************************************************)
\* float('nan'): what pandas gives for a blank cell
NaN == <<"<NaN>">>
\* Python None
None == <<"<None>">>

\* pd.notna(v)
notna(v) == v # NaN

s_nan == <<"n", "a", "n">>
\* str(v), and the formatting of v inside an f-string
str(v) == IF v = NaN THEN s_nan ELSE v

\* bool(v) of an optional string: None and '' are falsy
truthy(v) == v # None /\ v # <<>>

Whitespace == {" ", "\t", "\n"}

RECURSIVE lstrip(_)
lstrip(s) == IF s # <<>> /\ Head(s) \in Whitespace THEN lstrip(Tail(s)) ELSE s

RECURSIVE rstrip(_)
rstrip(s) ==
  IF s # <<>> /\ s[Len(s)] \in Whitespace THEN rstrip(SubSeq(s, 1, Len(s) - 1)) ELSE s

\* str.strip()
strip(s) == rstrip(lstrip(s))

UpperAlpha == <<"A", "B", "C", "D", "E", "F", "G", "H", "I", "J", "K", "L", "M",
                "N", "O", "P", "Q", "R", "S", "T", "U", "V", "W", "X", "Y", "Z">>
LowerAlpha == <<"a", "b", "c", "d", "e", "f", "g", "h", "i", "j", "k", "l", "m",
                "n", "o", "p", "q", "r", "s", "t", "u", "v", "w", "x", "y", "z">>

MapChar(from, to, c) ==
  IF \E k \in DOMAIN from : from[k] = c
  THEN to[CHOOSE k \in DOMAIN from : from[k] = c]
  ELSE c

\* str.lower(), str.upper()
lower(s) == [k \in 1..Len(s) |-> MapChar(UpperAlpha, LowerAlpha, s[k])]
upper(s) == [k \in 1..Len(s) |-> MapChar(LowerAlpha, UpperAlpha, s[k])]

\* s.replace(a, b) for one-character a and b
replace_char(s, a, b) == [k \in 1..Len(s) |-> IF s[k] = a THEN b ELSE s[k]]

\* s.replace(old, new) for a non-empty old
RECURSIVE replace(_, _, _)
replace(s, old, new) ==
  IF Len(s) < Len(old) THEN s
  ELSE IF SubSeq(s, 1, Len(old)) = old
       THEN new \o replace(SubSeq(s, Len(old) + 1, Len(s)), old, new)
       ELSE <<Head(s)>> \o replace(Tail(s), old, new)

\* sub in s
contains(s, sub) ==
  \E k \in 0..(Len(s) - Len(sub)) : SubSeq(s, k + 1, k + Len(sub)) = sub

\* s.startswith(p)
startswith(s, p) == Len(s) >= Len(p) /\ SubSeq(s, 1, Len(p)) = p

\* s.split(c, 1): at most one split, at the first c
split1(s, c) ==
  IF \E k \in 1..Len(s) : s[k] = c
  THEN LET k == CHOOSE k \in 1..Len(s) : s[k] = c /\ \A j \in 1..(k - 1) : s[j] # c
       IN  <<SubSeq(s, 1, k - 1), SubSeq(s, k + 1, Len(s))>>
  ELSE <<s>>

\* s.split(c)[0]
split_first(s, c) == split1(s, c)[1]

\* s.split(c)[-1]
split_last(s, c) ==
  IF \E k \in 1..Len(s) : s[k] = c
  THEN LET k == CHOOSE k \in 1..Len(s) : s[k] = c /\ \A j \in (k + 1)..Len(s) : s[j] # c
       IN  SubSeq(s, k + 1, Len(s))
  ELSE s

RECURSIVE Flatten(_)
Flatten(ss) == IF ss = <<>> THEN <<>> ELSE Head(ss) \o Flatten(Tail(ss))

\* sep.join(parts)
RECURSIVE join(_, _)
join(sep, parts) ==
  IF parts = <<>> THEN <<>>
  ELSE IF Len(parts) = 1 THEN parts[1]
  ELSE parts[1] \o sep \o join(sep, Tail(parts))

(***************************************************************************)
(* Literals of the code that are compared with cells or formatted as cells *)
(***************************************************************************)
s_hostname == <<"h", "o", "s", "t", "n", "a", "m", "e">>
s_serial_number == <<"s", "e", "r", "i", "a", "l", "_", "n", "u", "m", "b", "e", "r">>
s_domain_name == <<"d", "o", "m", "a", "i", "n", "_", "n", "a", "m", "e">>
s_root_password == <<"r", "o", "o", "t", "_", "p", "a", "s", "s", "w", "o", "r", "d">>
s_time_zone == <<"t", "i", "m", "e", "_", "z", "o", "n", "e">>
s_login_message == <<"l", "o", "g", "i", "n", "_", "m", "e", "s", "s", "a", "g", "e">>
s_name_server == <<"n", "a", "m", "e", "_", "s", "e", "r", "v", "e", "r">>
s_NO == <<"N", "O">>
s_YES == <<"Y", "E", "S">>
s_any == <<"a", "n", "y">>
s_info == <<"i", "n", "f", "o">>
s_49 == <<"4", "9">>
s_auto == <<"a", "u", "t", "o">>
s_trunk == <<"t", "r", "u", "n", "k">>
s_access == <<"a", "c", "c", "e", "s", "s">>
s_read_only == <<"r", "e", "a", "d", "-", "o", "n", "l", "y">>
s_community == <<"c", "o", "m", "m", "u", "n", "i", "t", "y">>
s_v3_user == <<"v", "3", "-", "u", "s", "e", "r">>
s_ssh_protocol == <<"s", "s", "h", "_", "p", "r", "o", "t", "o", "c", "o", "l">>
s_v2 == <<"v", "2">>
s_ssh_root_login == <<"s", "s", "h", "_", "r", "o", "o", "t", "_", "l", "o", "g", "i", "n">>
s_max_sessions == <<"m", "a", "x", "_", "s", "e", "s", "s", "i", "o", "n", "s">>
s_connection_limit == <<"c", "o", "n", "n", "e", "c", "t", "i", "o", "n", "_", "l", "i", "m", "i", "t">>
s_authentication_order == <<"a", "u", "t", "h", "e", "n", "t", "i", "c", "a", "t", "i", "o", "n", "_", "o", "r", "d", "e", "r">>
s_screen_ == <<"s", "c", "r", "e", "e", "n", "_">>
s_serial == <<"s", "e", "r", "i", "a", "l">>
s_host == <<"h", "o", "s", "t">>
s_ip == <<"i", "p">>
s_mgmt == <<"m", "g", "m", "t">>
s_management == <<"m", "a", "n", "a", "g", "e", "m", "e", "n", "t">>
s_serial_number_ph == <<"s", "e", "r", "i", "a", "l", " ", "n", "u", "m", "b", "e", "r">>
s_hash == <<"#">>
s_UNKNOWN == <<"U", "N", "K", "N", "O", "W", "N">>
s_unknown == <<"u", "n", "k", "n", "o", "w", "n">>
s_0000 == <<"0", ".", "0", ".", "0", ".", "0">>

(***************************************************************************)
(* Tables.  A sheet read by pd.read_excel is [columns, rows]; a row of a   *)
(* domain sheet is a function from the sheet's column names to cells.      *)
(***************************************************************************)
NoErr == "none"
Ok(cmds) == [err |-> NoErr, cmds |-> cmds]
Raise(e) == [err |-> e, cmds |-> <<>>]

\* row[col] for every col of cols, in this order: the first absent one
\* raises KeyError
MissingKey(row, cols) ==
  IF \E k \in DOMAIN cols : cols[k] \notin DOMAIN row
  THEN cols[CHOOSE k \in DOMAIN cols :
              cols[k] \notin DOMAIN row /\ \A j \in 1..(k - 1) : cols[j] \in DOMAIN row]
  ELSE "none"

\* row.get(col, default)
get(row, col, default) == IF col \in DOMAIN row THEN row[col] ELSE default

\* pd.notna(v) and v != ''
nonblank(v) == notna(v) /\ v # <<>>

\* `for _, row in df.iterrows()` over per-row outcomes rr: the first
\* exception leaves the loop and the function
FirstErr(rr) ==
  IF \E k \in DOMAIN rr : rr[k].err # NoErr
  THEN rr[CHOOSE k \in DOMAIN rr :
            rr[k].err # NoErr /\ \A j \in 1..(k - 1) : rr[j].err = NoErr].err
  ELSE NoErr

\* Section with the lines of the last row first
Section_last_row_first(header, rr) ==
  IF FirstErr(rr) # NoErr THEN Raise(FirstErr(rr))
  ELSE Ok(<<header>> \o Flatten([k \in DOMAIN rr |-> rr[Len(rr) + 1 - k].cmds]) \o << <<>> >>)

\* commands = [header]; per-row appends; commands.append('')
Section(header, rr) ==
  IF FirstErr(rr) # NoErr THEN Raise(FirstErr(rr))
  ELSE Ok(<<header>> \o Flatten([k \in DOMAIN rr |-> rr[k].cmds]) \o << <<>> >>)

(***************************************************************************)
(* Per-sheet generators.  Each returns Ok(commands) or the exception that  *)
(* left it.                                                                *)
(***************************************************************************)
system_row(row) ==
  IF MissingKey(row, <<"Parameter", "Value">>) # "none" THEN Raise("KeyError")
  ELSE LET param == row["Parameter"]
           value == row["Value"]
       IN  IF ~nonblank(value) THEN Ok(<<>>)
           ELSE IF param = s_serial_number THEN Ok(<<>>)
           ELSE IF param = s_hostname
                THEN Ok(<< <<"set system host-name ">> \o str(value) >>)
           ELSE IF param = s_domain_name
                THEN Ok(<< <<"set system domain-name ">> \o str(value) >>)
           ELSE IF param = s_root_password
                THEN Ok(<< <<"set system root-authentication encrypted-password \"">>
                           \o str(value) \o <<"\"">> >>)
           ELSE IF param = s_time_zone
                THEN Ok(<< <<"set system time-zone ">> \o str(value) >>)
           ELSE IF param = s_login_message
                THEN Ok(<< <<"set system login message \"">> \o str(value) \o <<"\"">> >>)
           \* a blank Parameter cell is a float: it has no startswith
           ELSE IF param = NaN THEN Raise("AttributeError")
           ELSE IF startswith(param, s_name_server)
                THEN Ok(<< <<"set system name-server ">> \o str(value) >>)
           ELSE Ok(<<>>)

\* the commands of generate_system_config
generate_system_config(df) ==
  Section(<<"# System Configuration">>, [k \in DOMAIN df.rows |-> system_row(df.rows[k])])

\* the serial_number generate_system_config returns with them: the Value of
\* the last non-blank serial_number row, None without one
system_serial(df) ==
  LET hits == {k \in DOMAIN df.rows :
                 /\ nonblank(df.rows[k]["Value"])
                 /\ df.rows[k]["Parameter"] = s_serial_number}
  IN  IF hits = {} THEN None
      ELSE df.rows[CHOOSE k \in hits : \A j \in hits : j <= k]["Value"]

\* ntp_row without the test of the server cell
ntp_row_unguarded(row) ==
  IF MissingKey(row, <<"NTP Server">>) # "none" THEN Raise("KeyError")
  ELSE LET server == row["NTP Server"]
           prefer == get(row, "Prefer", s_NO)
       IN  Ok(<< <<"set system ntp server ">> \o str(server)
                 \o (IF upper(str(prefer)) = s_YES THEN <<" prefer">> ELSE <<>>) >>)

ntp_row(row) ==
  IF MissingKey(row, <<"NTP Server">>) # "none" THEN Raise("KeyError")
  ELSE LET server == row["NTP Server"]
           prefer == get(row, "Prefer", s_NO)
       IN  IF nonblank(server)
           THEN Ok(<< <<"set system ntp server ">> \o str(server)
                      \o (IF upper(str(prefer)) = s_YES THEN <<" prefer">> ELSE <<>>) >>)
           ELSE Ok(<<>>)

generate_ntp_config(df) ==
  Section(<<"# NTP Configuration">>, [k \in DOMAIN df.rows |-> ntp_row(df.rows[k])])

syslog_row(row) ==
  IF MissingKey(row, <<"Syslog Server">>) # "none" THEN Raise("KeyError")
  ELSE LET server   == row["Syslog Server"]
           facility == get(row, "Facility", s_any)
           level    == get(row, "Level", s_info)
       IN  IF nonblank(server)
           THEN Ok(<< <<"set system syslog host ">> \o str(server) \o <<" ">>
                      \o str(facility) \o <<" ">> \o str(level) >>)
           ELSE Ok(<<>>)

generate_syslog_config(df) ==
  Section(<<"# Syslog Configuration">>, [k \in DOMAIN df.rows |-> syslog_row(df.rows[k])])

tacacs_row(row) ==
  IF MissingKey(row, <<"TACACS Server", "Secret">>) # "none" THEN Raise("KeyError")
  ELSE LET server == row["TACACS Server"]
           secret == row["Secret"]
           port   == get(row, "Port", s_49)
       IN  IF nonblank(server)
           THEN Ok(<< <<"set system tacplus-server ">> \o str(server) \o <<" secret \"">>
                      \o str(secret) \o <<"\"">> >>
                   \o (IF notna(port)
                       THEN << <<"set system tacplus-server ">> \o str(server)
                               \o <<" port ">> \o str(port) >>
                       ELSE <<>>))
           ELSE Ok(<<>>)

generate_tacacs_config(df) ==
  Section(<<"# TACACS+ Configuration">>, [k \in DOMAIN df.rows |-> tacacs_row(df.rows[k])])

vlan_row(row) ==
  IF MissingKey(row, <<"VLAN ID", "VLAN Name">>) # "none" THEN Raise("KeyError")
  ELSE LET vlan_id      == row["VLAN ID"]
           vlan_name    == row["VLAN Name"]
           l3_interface == get(row, "L3 Interface", <<>>)
       IN  IF nonblank(vlan_id)
           THEN Ok(<< <<"set vlans ">> \o str(vlan_name) \o <<" vlan-id ">> \o str(vlan_id) >>
                   \o (IF nonblank(l3_interface)
                       THEN << <<"set vlans ">> \o str(vlan_name) \o <<" l3-interface ">>
                               \o str(l3_interface) >>
                       ELSE <<>>))
           ELSE Ok(<<>>)

generate_vlan_config(df) ==
  Section(<<"# VLAN Configuration">>, [k \in DOMAIN df.rows |-> vlan_row(df.rows[k])])

irb_row(row) ==
  IF MissingKey(row, <<"Interface", "IP Address", "Prefix Length">>) # "none"
  THEN Raise("KeyError")
  ELSE LET interface   == row["Interface"]
           ip_address  == row["IP Address"]
           prefix      == row["Prefix Length"]
           description == get(row, "Description", <<>>)
           unit        == split_last(interface, ".")
           base        == split_first(interface, ".")
       IN  IF nonblank(interface)
           THEN Ok((IF nonblank(description)
                    THEN << <<"set interfaces ">> \o base \o <<" unit ">> \o unit
                            \o <<" description \"">> \o str(description) \o <<"\"">> >>
                    ELSE <<>>)
                   \o << <<"set interfaces ">> \o base \o <<" unit ">> \o unit
                         \o <<" family inet address ">> \o str(ip_address) \o <<"/">>
                         \o str(prefix) >>)
           ELSE Ok(<<>>)

generate_irb_config(df) ==
  Section(<<"# IRB Interface Configuration">>, [k \in DOMAIN df.rows |-> irb_row(df.rows[k])])

\* `vlans not in ('', 'nan')` in the inventory generator (nan_is_blank),
\* `vlans != ''` in the single-device generator
vlans_given(vlans, nan_is_blank) == vlans # <<>> /\ (nan_is_blank => vlans # s_nan)

\* interface_row comparing Enabled with NO in upper case only
interface_row_case_sensitive(row, nan_is_blank) ==
  IF MissingKey(row, <<"Interface", "Mode">>) # "none" THEN Raise("KeyError")
  ELSE LET interface   == row["Interface"]
           description == get(row, "Description", <<>>)
           mode        == row["Mode"]
           vlans       == str(get(row, "VLANs", <<>>))
           native_vlan == get(row, "Native VLAN", <<>>)
           speed       == get(row, "Speed", s_auto)
           duplex      == get(row, "Duplex", s_auto)
           enabled     == str(get(row, "Enabled", s_YES))
           pre         == <<"set interfaces ">> \o str(interface)
           sw          == pre \o <<" unit 0 family ethernet-switching">>
       IN  IF nonblank(interface)
           THEN Ok((IF nonblank(description)
                    THEN << pre \o <<" description \"">> \o str(description) \o <<"\"">> >>
                    ELSE <<>>)
                   \o (IF notna(speed) /\ speed # s_auto
                       THEN << pre \o <<" speed ">> \o str(speed) >> ELSE <<>>)
                   \o (IF notna(duplex) /\ duplex # s_auto
                       THEN << pre \o <<" link-mode ">> \o str(duplex) \o <<"-duplex">> >>
                       ELSE <<>>)
                   \o << sw >>
                   \o (IF mode = s_trunk
                       THEN << sw \o <<" interface-mode trunk">> >>
                            \o (IF vlans_given(vlans, nan_is_blank)
                                THEN << sw \o <<" vlan members [">>
                                        \o replace_char(vlans, ",", " ") \o <<"]">> >>
                                ELSE <<>>)
                            \o (IF nonblank(native_vlan)
                                THEN << pre \o <<" native-vlan-id ">> \o str(native_vlan) >>
                                ELSE <<>>)
                       ELSE IF mode = s_access
                       THEN << sw \o <<" interface-mode access">> >>
                            \o (IF vlans_given(vlans, nan_is_blank)
                                THEN << sw \o <<" vlan members ">> \o vlans >>
                                ELSE <<>>)
                       ELSE <<>>)
                   \o (IF enabled = s_NO THEN << pre \o <<" disable">> >> ELSE <<>>))
           ELSE Ok(<<>>)

interface_row(row, nan_is_blank) ==
  IF MissingKey(row, <<"Interface", "Mode">>) # "none" THEN Raise("KeyError")
  ELSE LET interface   == row["Interface"]
           description == get(row, "Description", <<>>)
           mode        == row["Mode"]
           vlans       == str(get(row, "VLANs", <<>>))
           native_vlan == get(row, "Native VLAN", <<>>)
           speed       == get(row, "Speed", s_auto)
           duplex      == get(row, "Duplex", s_auto)
           enabled     == upper(str(get(row, "Enabled", s_YES)))
           pre         == <<"set interfaces ">> \o str(interface)
           sw          == pre \o <<" unit 0 family ethernet-switching">>
       IN  IF nonblank(interface)
           THEN Ok((IF nonblank(description)
                    THEN << pre \o <<" description \"">> \o str(description) \o <<"\"">> >>
                    ELSE <<>>)
                   \o (IF notna(speed) /\ speed # s_auto
                       THEN << pre \o <<" speed ">> \o str(speed) >> ELSE <<>>)
                   \o (IF notna(duplex) /\ duplex # s_auto
                       THEN << pre \o <<" link-mode ">> \o str(duplex) \o <<"-duplex">> >>
                       ELSE <<>>)
                   \o << sw >>
                   \o (IF mode = s_trunk
                       THEN << sw \o <<" interface-mode trunk">> >>
                            \o (IF vlans_given(vlans, nan_is_blank)
                                THEN << sw \o <<" vlan members [">>
                                        \o replace_char(vlans, ",", " ") \o <<"]">> >>
                                ELSE <<>>)
                            \o (IF nonblank(native_vlan)
                                THEN << pre \o <<" native-vlan-id ">> \o str(native_vlan) >>
                                ELSE <<>>)
                       ELSE IF mode = s_access
                       THEN << sw \o <<" interface-mode access">> >>
                            \o (IF vlans_given(vlans, nan_is_blank)
                                THEN << sw \o <<" vlan members ">> \o vlans >>
                                ELSE <<>>)
                       ELSE <<>>)
                   \o (IF enabled = s_NO THEN << pre \o <<" disable">> >> ELSE <<>>))
           ELSE Ok(<<>>)

generate_interface_config(df, nan_is_blank) ==
  Section(<<"# Interface Configuration">>,
          [k \in DOMAIN df.rows |-> interface_row(df.rows[k], nan_is_blank)])

\* the address line of a management row
management_address_line(interface, ip_address, prefix) ==
  <<"set interfaces ">> \o str(interface) \o <<" unit 0 family inet address ">>
  \o str(ip_address) \o <<"/">> \o str(prefix)

\* management_row with the override also taken as the next hop
management_row_override_gateway(row, override_ip) ==
  IF MissingKey(row, <<"Interface">> \o (IF truthy(override_ip) THEN <<>> ELSE <<"IP Address">>)
                     \o <<"Prefix Length">>) # "none"
  THEN Raise("KeyError")
  ELSE LET interface   == row["Interface"]
           ip_address  == IF truthy(override_ip) THEN override_ip ELSE row["IP Address"]
           prefix      == row["Prefix Length"]
           gateway     == IF truthy(override_ip) THEN override_ip ELSE get(row, "Gateway", <<>>)
           description == get(row, "Description", <<>>)
       IN  IF nonblank(interface)
           THEN Ok((IF nonblank(description)
                    THEN << <<"set interfaces ">> \o str(interface) \o <<" description \"">>
                            \o str(description) \o <<"\"">> >>
                    ELSE <<>>)
                   \o << management_address_line(interface, ip_address, prefix) >>
                   \o (IF nonblank(gateway)
                       THEN << <<"set routing-options static route 0.0.0.0/0 next-hop ">>
                               \o str(gateway) >>
                       ELSE <<>>))
           ELSE Ok(<<>>)

management_row(row, override_ip) ==
  IF MissingKey(row, <<"Interface">> \o (IF truthy(override_ip) THEN <<>> ELSE <<"IP Address">>)
                     \o <<"Prefix Length">>) # "none"
  THEN Raise("KeyError")
  ELSE LET interface   == row["Interface"]
           ip_address  == IF truthy(override_ip) THEN override_ip ELSE row["IP Address"]
           prefix      == row["Prefix Length"]
           gateway     == get(row, "Gateway", <<>>)
           description == get(row, "Description", <<>>)
       IN  IF nonblank(interface)
           THEN Ok((IF nonblank(description)
                    THEN << <<"set interfaces ">> \o str(interface) \o <<" description \"">>
                            \o str(description) \o <<"\"">> >>
                    ELSE <<>>)
                   \o << management_address_line(interface, ip_address, prefix) >>
                   \o (IF nonblank(gateway)
                       THEN << <<"set routing-options static route 0.0.0.0/0 next-hop ">>
                               \o str(gateway) >>
                       ELSE <<>>))
           ELSE Ok(<<>>)

generate_management_config(df, override_ip) ==
  Section(<<"# Management Interface Configuration">>,
          [k \in DOMAIN df.rows |-> management_row(df.rows[k], override_ip)])

\* the features formatted with their setting, and their templates
feature_map(feature) ==
  CASE feature = s_ssh_root_login       -> <<"set system services ssh root-login ">>
    [] feature = s_max_sessions         -> <<"set system services ssh connection-limit ">>
    [] feature = s_connection_limit     -> <<"set system services ssh rate-limit ">>
    [] feature = s_authentication_order -> <<"set system authentication-order [ ">>

feature_tail(feature) == IF feature = s_authentication_order THEN <<" ]">> ELSE <<>>

\* what a hardening row appends to commands (cmds) and to screen_commands
hardening_row(row) ==
  IF MissingKey(row, <<"Feature", "Setting">>) # "none"
  THEN [err |-> "KeyError", cmds |-> <<>>, screen |-> <<>>]
  ELSE LET feature == row["Feature"]
           setting == row["Setting"]
       IN  IF ~(notna(feature) /\ notna(setting))
           THEN [err |-> NoErr, cmds |-> <<>>, screen |-> <<>>]
           ELSE IF feature = s_ssh_protocol /\ str(setting) = s_v2
           THEN [err |-> NoErr, screen |-> <<>>,
                 cmds |-> << <<"set system services ssh protocol-version v2">> >>]
           ELSE IF feature \in {s_ssh_root_login, s_max_sessions, s_connection_limit,
                                s_authentication_order}
           THEN [err |-> NoErr, screen |-> <<>>,
                 cmds |-> << feature_map(feature) \o str(setting) \o feature_tail(feature) >>]
           ELSE IF startswith(feature, s_screen_)
           THEN [err |-> NoErr, cmds |-> <<>>,
                 screen |-> << <<"set security screen ids-option untrust-screen ">>
                               \o replace_char(replace(feature, s_screen_, <<>>), "_", "-")
                               \o <<" threshold ">> \o str(setting) >>]
           ELSE [err |-> NoErr, cmds |-> <<>>, screen |-> <<>>]

generate_hardening_config(df) ==
  LET rr == [k \in DOMAIN df.rows |-> hardening_row(df.rows[k])]
      screen_commands == Flatten([k \in DOMAIN rr |-> rr[k].screen])
  IN  IF FirstErr(rr) # NoErr THEN Raise(FirstErr(rr))
      ELSE Ok(<< <<"# Security Hardening Configuration">> >>
              \o Flatten([k \in DOMAIN rr |-> rr[k].cmds])
              \o (IF screen_commands # <<>>
                  THEN << <<>>, <<"# IDS Screen Configuration">> >> \o screen_commands
                  ELSE <<>>)
              \o << <<>> >>)

\* protocol, password = value.split(':', 1): ValueError unless two parts
snmp_v3_line(name, kind, value) ==
  LET parts == split1(value, ":")
  IN  IF Len(parts) # 2 THEN Raise("ValueError")
      ELSE Ok(<< <<"set snmp v3 usm local-engine user ">> \o str(name) \o <<" ">>
                 \o <<kind>> \o <<"-">> \o parts[1] \o <<" ">> \o <<kind>>
                 \o <<"-password \"">> \o parts[2] \o <<"\"">> >>)

snmp_row(row) ==
  IF MissingKey(row, <<"Community/User", "Type">>) # "none" THEN Raise("KeyError")
  ELSE LET name          == row["Community/User"]
           snmp_type     == row["Type"]
           authorization == get(row, "Authorization", <<>>)
           privacy       == get(row, "Privacy", <<>>)
           access        == get(row, "Access", s_read_only)
           auth          == IF nonblank(authorization)
                            THEN snmp_v3_line(name, "authentication", authorization)
                            ELSE Ok(<<>>)
           priv          == IF nonblank(privacy)
                            THEN snmp_v3_line(name, "privacy", privacy)
                            ELSE Ok(<<>>)
       IN  IF ~nonblank(name) THEN Ok(<<>>)
           ELSE IF snmp_type = s_community
           THEN Ok(<< <<"set snmp community ">> \o str(name) \o <<" authorization ">>
                      \o str(access) >>)
           ELSE IF snmp_type = s_v3_user
           THEN IF auth.err # NoErr THEN auth
                ELSE IF priv.err # NoErr THEN priv
                ELSE Ok(auth.cmds \o priv.cmds)
           ELSE Ok(<<>>)

generate_snmp_config(df) ==
  Section(<<"# SNMP Configuration">>, [k \in DOMAIN df.rows |-> snmp_row(df.rows[k])])

(***************************************************************************)
(* Core config builder of the inventory generator, called once per switch. *)
(* xls is the workbook: sheet_names in workbook order, and the table of    *)
(* each sheet.                                                             *)
(***************************************************************************)
HeaderRule == <<"############################################################">>

\* loc_set_value that assigns nothing
loc_set_value_noop(df, param, value) == df

\* df.loc[df['Parameter'] == param, 'Value'] = value
loc_set_value(df, param, value) ==
  [columns |-> df.columns \cup {"Value"},
   rows    |-> [k \in DOMAIN df.rows |->
                  IF df.rows[k]["Parameter"] = param
                  THEN [c \in DOMAIN df.rows[k] \cup {"Value"} |->
                          IF c = "Value" THEN value ELSE df.rows[k][c]]
                  ELSE [c \in DOMAIN df.rows[k] \cup {"Value"} |->
                          IF c \in DOMAIN df.rows[k] THEN df.rows[k][c] ELSE NaN]]]

\* system_with_overrides that gives the hostname to the domain_name rows too
system_with_overrides_domain(df, serial_number, hostname) ==
  IF "Parameter" \notin df.columns THEN Raise("KeyError")
  ELSE generate_system_config(
         loc_set_value(loc_set_value(loc_set_value(df, s_domain_name, hostname),
                                     s_hostname, hostname),
                       s_serial_number, serial_number))

\* the System block of build_config
system_with_overrides(df, serial_number, hostname) ==
  IF "Parameter" \notin df.columns THEN Raise("KeyError")
  ELSE generate_system_config(
         loc_set_value(loc_set_value(df, s_hostname, hostname),
                       s_serial_number, serial_number))

SheetHandlers == {"NTP", "Syslog", "TACACS", "VLANs", "IRB_Interfaces", "Interfaces",
                  "Hardening", "SNMP"}

sheet_handlers(sheet_name, df) ==
  CASE sheet_name = "NTP"            -> generate_ntp_config(df)
    [] sheet_name = "Syslog"         -> generate_syslog_config(df)
    [] sheet_name = "TACACS"         -> generate_tacacs_config(df)
    [] sheet_name = "VLANs"          -> generate_vlan_config(df)
    [] sheet_name = "IRB_Interfaces" -> generate_irb_config(df)
    [] sheet_name = "Interfaces"     -> generate_interface_config(df, TRUE)
    [] sheet_name = "Hardening"      -> generate_hardening_config(df)
    [] sheet_name = "SNMP"           -> generate_snmp_config(df)

InSheets(xls, name) == \E k \in DOMAIN xls.sheet_names : xls.sheet_names[k] = name

\* handled_sheets in the order of the keys of sheet_handlers
handled_sheets_in_dict_order(xls) ==
  SelectSeq(<<"NTP", "Syslog", "TACACS", "VLANs", "IRB_Interfaces", "Interfaces",
              "Hardening", "SNMP">>, LAMBDA n : InSheets(xls, n))

\* for sheet_name in xls.sheet_names: if sheet_name in sheet_handlers
handled_sheets(xls) == SelectSeq(xls.sheet_names, LAMBDA n : n \in SheetHandlers)

\* build_blocks with the Management sheet mapped before the other domains
build_blocks_management_first(xls, serial_number, hostname, mgmt_ip) ==
  (IF InSheets(xls, "System")
   THEN << system_with_overrides(xls.sheets["System"], serial_number, hostname) >>
   ELSE <<>>)
  \o (IF InSheets(xls, "Management")
      THEN << generate_management_config(xls.sheets["Management"], mgmt_ip) >>
      ELSE <<>>)
  \o [k \in DOMAIN handled_sheets(xls) |->
        sheet_handlers(handled_sheets(xls)[k], xls.sheets[handled_sheets(xls)[k]])]

\* the outcomes of the blocks of build_config, in the order the code runs them
build_blocks(xls, serial_number, hostname, mgmt_ip) ==
  (IF InSheets(xls, "System")
   THEN << system_with_overrides(xls.sheets["System"], serial_number, hostname) >>
   ELSE <<>>)
  \o [k \in DOMAIN handled_sheets(xls) |->
        sheet_handlers(handled_sheets(xls)[k], xls.sheets[handled_sheets(xls)[k]])]
  \o (IF InSheets(xls, "Management")
      THEN << generate_management_config(xls.sheets["Management"], mgmt_ip) >>
      ELSE <<>>)

\* all_commands at the return of build_config, or the exception
all_commands(xls, serial_number, hostname, mgmt_ip) ==
  LET blocks == build_blocks(xls, serial_number, hostname, mgmt_ip)
  IN  IF FirstErr(blocks) # NoErr THEN Raise(FirstErr(blocks))
      ELSE Ok(<< <<"# Juniper EX Switch Configuration">>,
                 <<"# Generated from Excel template">>,
                 <<"# Switch Serial Number: ">> \o serial_number,
                 <<"# Hostname           : ">> \o hostname,
                 <<"# Management IP      : ">> \o mgmt_ip,
                 HeaderRule,
                 <<>> >>
              \o Flatten([k \in DOMAIN blocks |-> blocks[k].cmds]))

\* build_config: '\n'.join(all_commands), as [err, text]
build_config(xls, serial_number, hostname, mgmt_ip) ==
  LET r == all_commands(xls, serial_number, hostname, mgmt_ip)
  IN  IF r.err # NoErr THEN [err |-> r.err, text |-> <<>>]
      ELSE [err |-> NoErr, text |-> join(<<"\n">>, r.cmds)]

(***************************************************************************)
(* Inventory sheet: [columns, rows], columns the header names in sheet     *)
(* order, each row the cells in the same order.                            *)
(***************************************************************************)
\* df_inv.columns.str.strip()
stripped_columns(df_inv) == [k \in DOMAIN df_inv.columns |-> strip(df_inv.columns[k])]

\* the key of col_map a column is stored under, "none" when under no key
column_key(col) ==
  LET lc == replace_char(lower(col), " ", "_")
  IN  IF contains(lc, s_serial) THEN "serial"
      ELSE IF contains(lc, s_host) THEN "hostname"
      ELSE IF contains(lc, s_ip) \/ contains(lc, s_mgmt) \/ contains(lc, s_management)
           THEN "mgmt_ip"
      ELSE "none"

\* detect_columns keeping the first column of each key
detect_columns_first_match(columns) ==
  [key \in {"serial", "hostname", "mgmt_ip"} |->
     LET hits == {k \in DOMAIN columns : column_key(columns[k]) = key}
     IN  IF hits = {} THEN None
         ELSE columns[CHOOSE k \in hits : \A j \in hits : k <= j]]

\* col_map after the detection loop over columns: a later column of the
\* same key overwrites an earlier one; None stands for an absent key
detect_columns(columns) ==
  [key \in {"serial", "hostname", "mgmt_ip"} |->
     LET hits == {k \in DOMAIN columns : column_key(columns[k]) = key}
     IN  IF hits = {} THEN None
         ELSE columns[CHOOSE k \in hits : \A j \in hits : j <= k]]

\* missing_keys naming only the first field it misses
missing_keys_first_only(cm) ==
  LET all == SelectSeq(<<"serial", "hostname", "mgmt_ip">>, LAMBDA key : cm[key] = None)
  IN  IF all = <<>> THEN <<>> ELSE <<all[1]>>

\* missing = [k for k in ('serial', 'hostname', 'mgmt_ip') if k not in col_map]
missing_keys(cm) ==
  SelectSeq(<<"serial", "hostname", "mgmt_ip">>, LAMBDA key : cm[key] = None)

\* row[col] of an inventory row, col one of the stripped column names
inv_cell(df_inv, row, col) ==
  row[CHOOSE k \in DOMAIN df_inv.columns : stripped_columns(df_inv)[k] = col]

\* is_placeholder without the test for the text of a blank cell
is_placeholder_no_nan(serial) ==
  serial = <<>> \/ lower(serial) \in {s_serial_number_ph, s_hash, <<>>}

\* `not serial or serial.lower() in ('nan', 'serial number', '#', '')`
is_placeholder(serial) ==
  serial = <<>> \/ lower(serial) \in {s_nan, s_serial_number_ph, s_hash, <<>>}

\* cfg_path with the default name of the legacy branch for every serial
cfg_path_default_name(serial) == <<"switch.cfg">>

\* out_dir / f"{serial}.cfg", relative to out_dir
cfg_path(serial) == serial \o <<".cfg">>

\* the legacy branch: serial and hostname read from the System rows, the
\* last matching row with a non-blank value winning; None without one
legacy_param(df_sys, param) ==
  LET hits == {k \in DOMAIN df_sys.rows :
                 df_sys.rows[k]["Parameter"] = param /\ notna(df_sys.rows[k]["Value"])}
  IN  IF hits = {} THEN None
      ELSE strip(str(df_sys.rows[CHOOSE k \in hits : \A j \in hits : j <= k]["Value"]))

\* the exception of the loop over df_sys, "none" without one
legacy_system_error(df_sys) ==
  IF df_sys.rows = <<>> THEN NoErr
  ELSE IF "Parameter" \notin df_sys.columns THEN "KeyError"
  ELSE IF "Value" \notin df_sys.columns
          /\ \E k \in DOMAIN df_sys.rows :
               df_sys.rows[k]["Parameter"] \in {s_serial_number, s_hostname}
       THEN "KeyError"
  ELSE NoErr

\* df.empty
empty(df) == df.rows = <<>> \/ df.columns = {}

\* legacy_mgmt_ip reading the last Management row
legacy_mgmt_ip_last_row(xls) ==
  IF ~InSheets(xls, "Management") \/ empty(xls.sheets["Management"])
  THEN [err |-> NoErr, ip |-> s_0000]
  ELSE IF "IP Address" \notin xls.sheets["Management"].columns
  THEN [err |-> "KeyError", ip |-> s_0000]
  ELSE LET rows == xls.sheets["Management"].rows
       IN  IF notna(rows[Len(rows)]["IP Address"])
           THEN [err |-> NoErr, ip |-> str(rows[Len(rows)]["IP Address"])]
           ELSE [err |-> NoErr, ip |-> s_0000]

\* mgmt_ip of the legacy branch, as [err, ip]
legacy_mgmt_ip(xls) ==
  IF ~InSheets(xls, "Management") \/ empty(xls.sheets["Management"])
  THEN [err |-> NoErr, ip |-> s_0000]
  ELSE IF "IP Address" \notin xls.sheets["Management"].columns
  THEN [err |-> "KeyError", ip |-> s_0000]
  ELSE IF notna(xls.sheets["Management"].rows[1]["IP Address"])
  THEN [err |-> NoErr, ip |-> str(xls.sheets["Management"].rows[1]["IP Address"])]
  ELSE [err |-> NoErr, ip |-> s_0000]

\* `x or default`
or_default(x, default) == IF truthy(x) THEN x ELSE default

(***************************************************************************)
(* Bounds                                                                  *)
(***************************************************************************)
\* rows of a domain sheet other than System
MaxRows == 2
\* rows of the System sheet
MaxSysRows == 3
\* rows of the Inventory sheet
MaxInv == 3
\* domain sheets of a workbook whose sheet order varies
MaxSheets == 3

SeqUpTo(S, n) == UNION {[1..m -> S] : m \in 0..n}

(***************************************************************************)
(* Input workbooks                                                         *)
(***************************************************************************)
Row2(c1, v1, c2, v2) == (c1 :> v1) @@ (c2 :> v2)
Row3(c1, v1, c2, v2, c3, v3) == (c1 :> v1) @@ (c2 :> v2) @@ (c3 :> v3)

SysRow(p, v) == Row2("Parameter", p, "Value", v)
NtpRow(s, p) == Row2("NTP Server", s, "Prefer", p)
SyslogRow(s, f, l) == Row3("Syslog Server", s, "Facility", f, "Level", l)
TacacsRow(s, k, p) == Row3("TACACS Server", s, "Secret", k, "Port", p)
VlanRow(id, n, l3) == Row3("VLAN ID", id, "VLAN Name", n, "L3 Interface", l3)
IrbRow(i, a, p, d) ==
  Row2("Interface", i, "IP Address", a) @@ Row2("Prefix Length", p, "Description", d)
IfRow(i, d, m, v, n, s, x, e) ==
  Row3("Interface", i, "Description", d, "Mode", m)
  @@ Row3("VLANs", v, "Native VLAN", n, "Speed", s) @@ Row2("Duplex", x, "Enabled", e)
MgmtRow(i, a, p, g, d) ==
  Row3("Interface", i, "IP Address", a, "Prefix Length", p)
  @@ Row2("Gateway", g, "Description", d)
HardRow(f, s) == Row2("Feature", f, "Setting", s)
SnmpRow(n, t, a, p, x) ==
  Row3("Community/User", n, "Type", t, "Authorization", a)
  @@ Row2("Privacy", p, "Access", x)

Domains == {"System", "NTP", "Syslog", "TACACS", "VLANs", "IRB_Interfaces", "Interfaces",
            "Management", "Hardening", "SNMP"}

\* the rows a sheet of the model is made of
Pool(name) ==
  CASE name = "System" ->
         {SysRow(s_hostname, <<"o", "l", "d">>), SysRow(s_hostname, NaN),
          SysRow(s_serial_number, <<"S", "0">>),
          SysRow(s_domain_name, <<"e", "x", ".", "c", "o", "m">>), SysRow(<<"l", "o", "c", "a", "t", "i", "o", "n">>, <<"l", "a", "b">>),
          SysRow(<<"n", "a", "m", "e", "_", "s", "e", "r", "v", "e", "r", "_", "1">>, <<"8", ".", "8">>), SysRow(NaN, <<"x">>)}
    [] name = "NTP" ->
         {NtpRow(<<"1", ".", "1">>, s_YES), NtpRow(<<"2", ".", "2">>, <<"y", "e", "s">>), NtpRow(<<"3", ".", "3">>, s_NO),
          NtpRow(<<"4", ".", "4">>, <<"m", "a", "y", "b", "e">>), NtpRow(NaN, s_YES), NtpRow(<<"5", ".", "5">>, NaN)}
    [] name = "Syslog" ->
         {SyslogRow(<<"9", ".", "9">>, <<"a", "u", "t", "h">>, <<"w", "a", "r", "n">>), SyslogRow(<<"8", ".", "8">>, NaN, NaN),
          SyslogRow(NaN, s_any, s_info)}
    [] name = "TACACS" ->
         {TacacsRow(<<"7", ".", "7">>, <<"k">>, s_49), TacacsRow(<<"6", ".", "6">>, <<"k">>, NaN),
          TacacsRow(NaN, <<"k">>, s_49), TacacsRow(<<"5", ".", "5">>, NaN, NaN)}
    [] name = "VLANs" ->
         {VlanRow(<<"1", "0">>, <<"v", "1", "0">>, <<"i", "r", "b", ".", "1", "0">>), VlanRow(<<"2", "0">>, <<"v", "2", "0">>, NaN),
          VlanRow(NaN, <<"v", "3", "0">>, <<"i", "r", "b", ".", "3", "0">>), VlanRow(<<"4", "0">>, NaN, NaN)}
    [] name = "IRB_Interfaces" ->
         {IrbRow(<<"i", "r", "b", ".", "1", "0">>, <<"1", ".", "1">>, <<"2", "4">>, <<"d">>), IrbRow(<<"i", "r", "b">>, <<"2", ".", "2">>, <<"2", "4">>, NaN),
          IrbRow(NaN, <<"3", ".", "3">>, <<"2", "4">>, <<"d">>), IrbRow(<<"a", ".", "b", ".", "7">>, <<"4", ".", "4">>, NaN, NaN)}
    [] name = "Interfaces" ->
         {IfRow(<<"g", "e", "1">>, <<"u", "p">>, s_trunk, <<"1", "0", ",", "2", "0">>, <<"1">>, <<"1", "g">>, <<"f", "u", "l", "l">>, s_NO),
          IfRow(<<"g", "e", "2">>, NaN, s_access, <<"1", "0">>, NaN, s_auto, s_auto, s_YES),
          IfRow(<<"g", "e", "3">>, NaN, s_access, NaN, NaN, NaN, NaN, <<"m", "a", "y", "b", "e">>),
          IfRow(<<"g", "e", "4">>, NaN, NaN, NaN, NaN, NaN, NaN, <<"n", "o">>),
          IfRow(NaN, <<"u", "p">>, s_trunk, <<"1", "0">>, <<"1">>, <<"1", "g">>, <<"f", "u", "l", "l">>, s_NO)}
    [] name = "Management" ->
         {MgmtRow(<<"m", "e", "0">>, <<"9", ".", "9">>, <<"2", "4">>, <<"9", ".", "1">>, <<"o", "o", "b">>),
          MgmtRow(<<"m", "e", "1">>, <<"8", ".", "8">>, <<"1", "6">>, NaN, NaN),
          MgmtRow(NaN, <<"7", ".", "7">>, <<"2", "4">>, <<"7", ".", "1">>, <<"x">>),
          MgmtRow(<<"m", "e", "2">>, NaN, <<"2", "4">>, <<"2", ".", "1">>, NaN)}
    [] name = "Hardening" ->
         {HardRow(s_ssh_protocol, s_v2), HardRow(s_ssh_protocol, <<"v", "1">>),
          HardRow(s_ssh_root_login, <<"d", "e", "n", "y">>), HardRow(<<"s", "c", "r", "e", "e", "n", "_", "s", "y", "n", "_", "f", "l", "o", "o", "d">>, <<"1", "0", "0">>),
          HardRow(s_max_sessions, NaN), HardRow(<<"b", "a", "n", "n", "e", "r">>, <<"x">>)}
    [] name = "SNMP" ->
         {SnmpRow(<<"p", "u", "b">>, s_community, NaN, NaN, s_read_only),
          SnmpRow(<<"u", "3">>, s_v3_user, <<"s", "h", "a", ":", "p", "w">>, <<"a", "e", "s", ":", "k">>, NaN),
          SnmpRow(<<"u", "4">>, s_v3_user, <<"i", "n", "v", "a", "l", "i", "d", "n", "o", "c", "o", "l", "o", "n">>, NaN, NaN),
          SnmpRow(<<"u", "5">>, s_v3_user, <<"s", "h", "a", ":", "p", ":", "w">>, <<"n", "o", "c", "o", "l", "o", "n">>, NaN),
          SnmpRow(NaN, s_v3_user, <<"n", "o", "c", "o", "l", "o", "n">>, NaN, NaN),
          SnmpRow(<<"u", "6">>, s_v3_user, NaN, NaN, NaN)}

\* the columns of the rows of Pool(name)
PoolColumns(name) == DOMAIN (CHOOSE r \in Pool(name) : TRUE)

Table(columns, rows) == [columns |-> columns, rows |-> rows]

\* the sheet df without its column c
WithoutColumn(df, c) ==
  [columns |-> df.columns \ {c},
   rows    |-> [k \in DOMAIN df.rows |-> [x \in DOMAIN df.rows[k] \ {c} |-> df.rows[k][x]]]]

\* the sheet of each domain used when only the sheet order varies
DefaultTable(name) ==
  CASE name = "System" ->
         Table(PoolColumns(name),
               <<SysRow(s_hostname, <<"o", "l", "d">>), SysRow(s_serial_number, NaN),
                 SysRow(s_domain_name, <<"e", "x", ".", "c", "o", "m">>),
                 SysRow(<<"n", "a", "m", "e", "_", "s", "e", "r", "v", "e", "r", "_", "1">>, <<"8", ".", "8">>)>>)
    [] name = "Management" ->
         Table(PoolColumns(name),
               <<MgmtRow(<<"m", "e", "0">>, <<"9", ".", "9">>, <<"2", "4">>, <<"9", ".", "1">>, <<"o", "o", "b">>),
                 MgmtRow(<<"m", "e", "1">>, <<"8", ".", "8">>, <<"1", "6">>, NaN, NaN)>>)
    [] name = "SNMP" ->
         Table(PoolColumns(name),
               <<SnmpRow(<<"p", "u", "b">>, s_community, NaN, NaN, s_read_only),
                 SnmpRow(<<"u", "3">>, s_v3_user, <<"s", "h", "a", ":", "p", "w">>, <<"a", "e", "s", ":", "k">>, NaN)>>)
    [] name = "Hardening" ->
         Table(PoolColumns(name),
               <<HardRow(<<"s", "c", "r", "e", "e", "n", "_", "s", "y", "n", "_", "f", "l", "o", "o", "d">>, <<"1", "0", "0">>), HardRow(s_ssh_protocol, s_v2)>>)
    [] OTHER ->
         Table(PoolColumns(name), <<CHOOSE r \in Pool(name) : \A c \in DOMAIN r : notna(r[c])>>)

\* sheets with a column removed, and the sheet without header or rows
SpecialTables(name) ==
  {WithoutColumn(DefaultTable(name), c) : c \in PoolColumns(name)}
  \cup {Table({}, <<>>)}

Distinct(s) == \A j, k \in DOMAIN s : j # k => s[j] # s[k]

\* the sheets of a domain the model runs on; the rows of a System sheet differ
Tables(name) ==
  (IF name = "System"
   THEN {Table(PoolColumns(name), rows) :
           rows \in {s \in SeqUpTo(Pool(name), MaxSysRows) : Distinct(s)}}
   ELSE {Table(PoolColumns(name), rows) : rows \in SeqUpTo(Pool(name), MaxRows)})
  \cup SpecialTables(name)

\* a device record of the Inventory sheet, as the sheet's author means it
Rec(serial, hostname, mgmt_ip) ==
  [serial |-> serial, hostname |-> hostname, mgmt_ip |-> mgmt_ip, other |-> <<"u", "p", "l", "i", "n", "k", " ", "s", "w">>]

DevA == Rec(<<"A", "1">>, <<"s", "1">>, <<"1", "0", ".", "1">>)
DevB == Rec(<<"B", "2">>, <<"s", "2">>, <<"1", "0", ".", "2">>)
\* a record whose hostname and management IP cells hold a space
DevBlank == Rec(<<"C", "3">>, <<" ">>, <<" ">>)

InvPool ==
  {DevA,
   Rec(<<" ", "A", "1", " ">>, <<"s", "3">>, <<"1", "0", ".", "3">>),
   Rec(NaN, NaN, NaN),
   Rec(<<"#">>, <<"x">>, <<"x">>),
   Rec(<<"S", "e", "r", "i", "a", "l", " ", "N", "u", "m", "b", "e", "r">>, <<"H", "o", "s", "t", "n", "a", "m", "e">>, <<"M", "g", "m", "t", " ", "I", "P">>),
   Rec(<<" ", " ">>, <<"s", "4">>, <<"1", "0", ".", "4">>),
   DevBlank,
   Rec(<<"D", "/", "4">>, NaN, NaN)}

\* a header of the Inventory sheet: the name of each column, and the field
\* of the device record its cells hold
Col(name, field) == [name |-> name, field |-> field]

StdColumns ==
  <<Col(<<"S", "e", "r", "i", "a", "l", " ", "N", "u", "m", "b", "e", "r">>, "serial"), Col(<<"H", "o", "s", "t", "n", "a", "m", "e">>, "hostname"),
    Col(<<"M", "g", "m", "t", " ", "I", "P">>, "mgmt_ip")>>

InvHeaders ==
  {StdColumns,
   <<Col(<<" ", "s", "e", "r", "i", "a", "l", " ">>, "serial"), Col(<<"H", "O", "S", "T", " ", "N", "A", "M", "E">>, "hostname"),
     Col(<<"M", "a", "n", "a", "g", "e", "m", "e", "n", "t", " ", "A", "d", "d", "r", "e", "s", "s">>, "mgmt_ip")>>,
   <<Col(<<"S", "e", "r", "i", "a", "l", " ", "N", "u", "m", "b", "e", "r">>, "serial"), Col(<<"D", "e", "v", "i", "c", "e">>, "hostname"),
     Col(<<"M", "g", "m", "t", " ", "I", "P">>, "mgmt_ip")>>,
   <<Col(<<"S", "N">>, "serial"), Col(<<"H", "o", "s", "t", "n", "a", "m", "e">>, "hostname"), Col(<<"A", "d", "d", "r", "e", "s", "s">>, "mgmt_ip")>>,
   <<Col(<<"S", "e", "r", "i", "a", "l", " ", "N", "u", "m", "b", "e", "r">>, "serial"), Col(<<"H", "o", "s", "t", "n", "a", "m", "e">>, "hostname"),
     Col(<<"M", "g", "m", "t", " ", "I", "P">>, "mgmt_ip"), Col(<<"D", "e", "s", "c", "r", "i", "p", "t", "i", "o", "n">>, "other")>>,
   <<Col(<<"H", "o", "s", "t", " ", "S", "e", "r", "i", "a", "l">>, "serial"), Col(<<"H", "o", "s", "t", "n", "a", "m", "e">>, "hostname"), Col(<<"I", "P">>, "mgmt_ip")>>,
   <<Col(<<"M", "o", "d", "e", "l">>, "other")>>}

\* the Inventory sheet with header `header` and one row per record
InvTable(header, recs) ==
  [columns |-> [k \in DOMAIN header |-> header[k].name],
   rows    |-> [r \in DOMAIN recs |-> [k \in DOMAIN header |-> recs[r][header[k].field]]]]

Workbook(sheet_names, sheets) == [sheet_names |-> sheet_names, sheets |-> sheets]

\* a workbook of default sheets in the given order
DefaultBook(names) == Workbook(names, [n \in {names[k] : k \in DOMAIN names} |-> DefaultTable(n)])

\* the workbook wb with an Inventory sheet in front
WithInventory(wb, df_inv) ==
  Workbook(<<"Inventory">> \o wb.sheet_names,
           [n \in DOMAIN wb.sheets \cup {"Inventory"} |->
              IF n = "Inventory" THEN df_inv ELSE wb.sheets[n]])

\* the domains whose order in the workbook varies
OrderSheets == {"System", "NTP", "VLANs", "Management", "Hardening", "SNMP"}

\* workbooks of default sheets, in every order
OrderBooks == {DefaultBook(names) : names \in {s \in SeqUpTo(OrderSheets, MaxSheets) : Distinct(s)}}

\* workbooks of one varying domain sheet between a System and a Management sheet
DomainBooks ==
  UNION {{Workbook(<<"System", n, "Management">>,
                   [x \in {"System", n, "Management"} |->
                      IF x = n THEN df ELSE DefaultTable(x)]) : df \in Tables(n)}
         : n \in Domains \ {"System", "Management"}}

\* workbooks of a varying System sheet, and of a varying Management sheet
OverrideBooks ==
  {Workbook(<<"System", "NTP">>,
            [x \in {"System", "NTP"} |->
               IF x = "System" THEN df ELSE DefaultTable(x)]) : df \in Tables("System")}
  \cup {Workbook(<<"NTP", "Management">>,
                 [x \in {"NTP", "Management"} |->
                    IF x = "Management" THEN df ELSE DefaultTable(x)])
          : df \in Tables("Management")}

\* the overrides the System and Management sheets are built with
OverrideInventories ==
  {InvTable(StdColumns, <<r>>) :
     r \in {DevA, DevBlank, Rec(<<"D", "4">>, NaN, NaN)}}

\* the workbook the inventories vary on
InventoryBook == DefaultBook(<<"System", "NTP", "Management">>)

\* a workbook whose Management sheet has no IP Address column: build_config
\* raises for a record without management IP
FailingBook ==
  Workbook(<<"System", "Management">>,
           [x \in {"System", "Management"} |->
              IF x = "System" THEN DefaultTable(x)
              ELSE WithoutColumn(DefaultTable(x), "IP Address")])

FailingPool == {DevA, DevBlank, Rec(NaN, NaN, NaN)}

\* workbooks of a varying Management sheet after the System sheet
ManagementBooks ==
  {Workbook(<<"System", "Management">>,
            [x \in {"System", "Management"} |->
               IF x = "Management" THEN df ELSE DefaultTable(x)])
     : df \in Tables("Management")}

\* the workbooks without Inventory sheet
LegacyBooks == OrderBooks \cup DomainBooks \cup OverrideBooks \cup ManagementBooks

Workbooks ==
  \* no Inventory sheet: the legacy branch
  LegacyBooks
  \* one device, every sheet order and every sheet content
  \cup {WithInventory(wb, InvTable(StdColumns, <<DevA>>))
          : wb \in OrderBooks \cup DomainBooks}
  \cup {WithInventory(wb, inv) : wb \in OverrideBooks, inv \in OverrideInventories}
  \* every inventory
  \cup {WithInventory(InventoryBook, InvTable(StdColumns, recs))
          : recs \in SeqUpTo(InvPool, MaxInv)}
  \cup {WithInventory(FailingBook, InvTable(StdColumns, recs))
          : recs \in SeqUpTo(FailingPool, MaxInv)}
  \cup {WithInventory(DefaultBook(<<"System", "NTP", "Management">>),
                      InvTable(h, <<DevA, DevB>>))
          : h \in InvHeaders}

\* the workbook of a run that opens none
NoBook == Workbook(<<>>, <<>>)

(***************************************************************************)
(* The single-device generator (OOB-Config-Gen V3): the body of its        *)
(* convert_excel_to_junos.  Its sheet generators are those above, with     *)
(* generate_management_config taking no override and the VLANs test of     *)
(* generate_interface_config being `vlans != ''`.                          *)
(***************************************************************************)
v3_sheet_handlers(sheet_name, df) ==
  IF sheet_name = "Management" THEN generate_management_config(df, None)
  ELSE IF sheet_name = "Interfaces" THEN generate_interface_config(df, FALSE)
  ELSE sheet_handlers(sheet_name, df)

v3_handled_sheets(xls) ==
  SelectSeq(xls.sheet_names, LAMBDA n : n \in SheetHandlers \cup {"Management"})

\* serial_number after the System block: None without System sheet
v3_serial_number(xls) ==
  IF InSheets(xls, "System") THEN system_serial(xls.sheets["System"]) ELSE None

\* hostname after the System block: the Value of the last hostname row
\* with a value, None without one
v3_hostname(xls) ==
  IF ~InSheets(xls, "System") THEN None
  ELSE LET df == xls.sheets["System"]
           hits == {k \in DOMAIN df.rows :
                      df.rows[k]["Parameter"] = s_hostname /\ notna(df.rows[k]["Value"])}
       IN  IF hits = {} THEN None
           ELSE df.rows[CHOOSE k \in hits : \A j \in hits : j <= k]["Value"]

\* all_commands before the join, or the exception
v3_all_commands(xls) ==
  LET sys == IF InSheets(xls, "System")
             THEN generate_system_config(xls.sheets["System"])
             \* system_commands is assigned in the System block only
             ELSE Raise("UnboundLocalError")
      blocks == <<sys>> \o [k \in DOMAIN v3_handled_sheets(xls) |->
                   v3_sheet_handlers(v3_handled_sheets(xls)[k],
                                     xls.sheets[v3_handled_sheets(xls)[k]])]
  IN  IF FirstErr(blocks) # NoErr THEN Raise(FirstErr(blocks))
      ELSE Ok(<< <<"# Juniper EX Switch Configuration">>,
                 <<"# Generated from Excel template">> >>
              \o (IF truthy(v3_serial_number(xls))
                  THEN << <<"# Switch Serial Number: ">> \o str(v3_serial_number(xls)) >>
                  ELSE <<>>)
              \o << HeaderRule, <<>> >>
              \o Flatten([k \in DOMAIN blocks |-> blocks[k].cmds]))

\* final_output_file: None when the text goes to stdout
v3_final_output_file(xls, output_file) ==
  IF truthy(output_file) THEN output_file
  ELSE IF truthy(v3_serial_number(xls)) THEN cfg_path(str(v3_serial_number(xls)))
  ELSE IF truthy(v3_hostname(xls)) THEN cfg_path(str(v3_hostname(xls)))
  ELSE None

(***************************************************************************)
(* generate_configs.py: one <serial>.conf per device of a YAML device file, *)
(* rendered from the Jinja2 templates of a directory.  A device is a        *)
(* function from its keys to values; a template file is a sequence of       *)
(* pieces, literal text or a reference {{ name }} to a key of the device.   *)
(***************************************************************************)
DEFAULT_TEMPLATE_ORDER ==
  << <<"s", "y", "s", "t", "e", "m", "_", "h", "a", "r", "d", "e", "n", "i", "n", "g">>, <<"i", "n", "t", "e", "r", "f", "a", "c", "e", "s">>, <<"n", "t", "p">>, <<"s", "y", "s", "l", "o", "g">>, <<"t", "a", "c", "a", "c", "s">>, <<"s", "n", "m", "p", "v", "3">> >>

Lit(text) == [kind |-> "lit", text |-> text]
Var(name) == [kind |-> "var", name |-> name]

\* f"{template_name}.j2"
j2(template_name) == template_name \o <<".j2">>

Entry(level, msg, items) == [level |-> level, msg |-> msg, args |-> items]

\* tmpl.render(**context) under StrictUndefined: a reference to a key the
\* context lacks raises UndefinedError
render(tmpl, context) ==
  IF \E k \in DOMAIN tmpl : tmpl[k].kind = "var" /\ tmpl[k].name \notin DOMAIN context
  THEN Raise("UndefinedError")
  ELSE Ok(Flatten([k \in DOMAIN tmpl |->
                     IF tmpl[k].kind = "lit" THEN tmpl[k].text ELSE context[tmpl[k].name]]))

\* render_template: [out, log]; out is None when the template is not found
\* or its rendering raised
render_template(env, template_name, context) ==
  LET filename == j2(template_name)
  IN  IF filename \notin DOMAIN env
      THEN [out |-> None,
            log |-> <<Entry("WARNING", "Template not found, skipping", <<filename>>)>>]
      ELSE LET r == render(env[filename], context)
           IN  IF r.err # NoErr
               THEN [out |-> None,
                     log |-> <<Entry("ERROR", "Error rendering",
                                     <<filename,
                                       IF "serial" \in DOMAIN context
                                       THEN context["serial"] ELSE <<"?">>,
                                       <<r.err>> >>)>>]
               ELSE [out |-> r.cmds, log |-> <<>>]

max(a, b) == IF a >= b THEN a ELSE b

\* the two strings one template adds to sections, none when it rendered to
\* None or to ''
section_of(tmpl_name, rendered) ==
  IF truthy(rendered)
  THEN << <<"# ---- ">> \o upper(replace_char(tmpl_name, "_", " ")) \o <<" ">>
            \o [k \in 1..max(0, 50 - Len(tmpl_name)) |-> "-"] \o <<" #", "\n">>,
          strip(rendered) \o <<"\n", "\n">> >>
  ELSE <<>>

\* device_header with the time of generation on the title rule as well
device_header_stamped_rule(device, now_str) ==
  <<"# ============================================================ ", now_str, "\n">>
  \o <<"# Device  : ">> \o device["serial"] \o <<"\n">>
  \o <<"# Model   : ">> \o device["model"] \o <<"\n">>
  \o <<"# Host    : ">>
  \o (IF "hostname" \in DOMAIN device THEN device["hostname"] ELSE <<"N/A">>) \o <<"\n">>
  \o <<"# Generated: ", now_str, "\n">>
  \o <<"# ============================================================", "\n", "\n">>

device_header(device, now_str) ==
  <<"# ============================================================", "\n">>
  \o <<"# Device  : ">> \o device["serial"] \o <<"\n">>
  \o <<"# Model   : ">> \o device["model"] \o <<"\n">>
  \o <<"# Host    : ">>
  \o (IF "hostname" \in DOMAIN device THEN device["hostname"] ELSE <<"N/A">>) \o <<"\n">>
  \o <<"# Generated: ", now_str, "\n">>
  \o <<"# ============================================================", "\n", "\n">>

\* generate_device_config: [text, log], log what render_template logged
generate_device_config(device, env, template_names, now_str) ==
  LET rendered == [k \in DOMAIN template_names |->
                     render_template(env, template_names[k], device)]
      sections == <<device_header(device, now_str)>>
                  \o Flatten([k \in DOMAIN template_names |->
                                section_of(template_names[k], rendered[k].out)])
  IN  [text |-> Flatten(sections),
       log  |-> Flatten([k \in DOMAIN template_names |-> rendered[k].log])]

\* out / f"{serial}.conf", relative to the output directory
conf_path(serial) == serial \o <<".conf">>

\* load_devices on an existing file: [exit, devices, log]
load_devices(data) ==
  LET missing == {k \in DOMAIN data : "serial" \notin DOMAIN data[k]}
      first   == CHOOSE k \in missing : \A j \in missing : k <= j
      nomodel(K) == {k \in K : "model" \notin DOMAIN data[k]}
      warn(K) == [k \in 1..Cardinality(nomodel(K)) |->
                    LET d == CHOOSE d \in nomodel(K) :
                               Cardinality({j \in nomodel(K) : j < d}) = k - 1
                    IN  Entry("WARNING", "Device has no 'model' field", <<data[d]["serial"]>>)]
      defaulted == [k \in DOMAIN data |->
                      IF "model" \in DOMAIN data[k] THEN data[k]
                      ELSE [key \in DOMAIN data[k] \cup {"model"} |->
                              IF key = "model" THEN <<"E", "X", "4", "1", "0", "0">> ELSE data[k][key]]]
  IN  IF data = <<>>
      THEN [exit |-> TRUE, devices |-> <<>>,
            log |-> <<Entry("ERROR", "No devices found", <<>>)>>]
      ELSE IF missing # {}
      THEN [exit |-> TRUE, devices |-> <<>>,
            log |-> warn(1..(first - 1))
                    \o <<Entry("ERROR", "Device entry missing 'serial'", <<>>)>>]
      ELSE [exit |-> FALSE, devices |-> defaulted, log |-> warn(DOMAIN data)]

\* Inputs of generate_configs.py
MaxDevices == 2

Dev(serial, rest) ==
  [key \in {"serial"} \cup DOMAIN rest |-> IF key = "serial" THEN serial ELSE rest[key]]

JDevPool ==
  { Dev(<<"J", "1">>, [model |-> <<"E", "X", "4", "4", "0", "0">>, hostname |-> <<"s", "w", "1">>, ntp |-> <<"1", ".", "1">>]),
    Dev(<<"J", "2">>, [hostname |-> <<"s", "w", "2">>]),
    Dev(<<"J", "1">>, [model |-> <<"E", "X", "4", "1", "0", "0">>, ntp |-> <<"2", ".", "2">>]),
    Dev(<<"J", "/", "3">>, [model |-> <<"E", "X", "4", "4", "0", "0">>, hostname |-> <<"s", "w", "3">>, ntp |-> <<"3", ".", "3">>]),
    [hostname |-> <<"s", "w", "9">>] }

YamlData == SeqUpTo(JDevPool, MaxDevices)

\* a templates directory: syslog.j2 is an empty file, interfaces.j2 holds
\* white space only
FullDir ==
  [f \in {j2(DEFAULT_TEMPLATE_ORDER[k]) : k \in 1..6} |->
     CASE f = j2(<<"s", "y", "s", "t", "e", "m", "_", "h", "a", "r", "d", "e", "n", "i", "n", "g">>) ->
            <<Lit(<<"set system host-name ">>), Var("hostname"), Lit(<<"\n">>)>>
       [] f = j2(<<"i", "n", "t", "e", "r", "f", "a", "c", "e", "s">>) -> <<Lit(<<" ", "\n">>)>>
       [] f = j2(<<"n", "t", "p">>) ->
            <<Lit(<<"set system ntp server ">>), Var("ntp"), Lit(<<"\n">>)>>
       [] f = j2(<<"s", "y", "s", "l", "o", "g">>) -> <<>>
       [] f = j2(<<"t", "a", "c", "a", "c", "s">>) -> <<Lit(<<"set system authentication-order tacplus">>)>>
       [] f = j2(<<"s", "n", "m", "p", "v", "3">>) ->
            <<Lit(<<"set snmp v3 usm local-engine user ">>), Var("serial"), Lit(<<"\n">>)>>]

DirWithout(name) == [f \in DOMAIN FullDir \ {j2(name)} |-> FullDir[f]]

\* None: the directory does not exist
TemplateDirs == {None, FullDir, DirWithout(<<"t", "a", "c", "a", "c", "s">>)}

\* the values datetime.now() is formatted to
Clock == {"2024-01-01 00:00:00", "2024-01-01 00:00:01"}

Args(devices_exists, serial_arg, dry_run) ==
  [devices_exists |-> devices_exists, serial |-> serial_arg, dry_run |-> dry_run,
   templates_list |-> DEFAULT_TEMPLATE_ORDER]

\* the runs of generate_configs.py: [args, yaml_data, templates_dir]
JinjaRun(a, data, dir) == [args |-> a, yaml_data |-> data, templates_dir |-> dir]

JinjaRuns ==
  \* no devices file
  {JinjaRun(Args(FALSE, None, FALSE), <<>>, FullDir)}
  \* every devices file
  \cup {JinjaRun(Args(TRUE, None, dry_run), data, FullDir)
          : dry_run \in BOOLEAN, data \in YamlData}
  \* every templates directory and --serial
  \cup {JinjaRun(Args(TRUE, serial_arg, dry_run), data, dir)
          : serial_arg \in {None, <<"J", "1">>, <<"Z", "Z">>}, dry_run \in BOOLEAN,
            data \in {<<d1, d2>> : d1 \in JDevPool \ {[hostname |-> <<"s", "w", "9">>]},
                                   d2 \in {Dev(<<"J", "2">>, [hostname |-> <<"s", "w", "2">>])}},
            dir \in TemplateDirs}

NoArgs == [devices_exists |-> FALSE, serial |-> None, dry_run |-> FALSE, templates_list |-> <<>>]

(***************************************************************************)
(* The runs: __main__ and convert_excel_to_junos of the two Excel          *)
(* generators, main of generate_configs.py.                                *)
(***************************************************************************)
VARIABLES
  tool,         \* the script that runs: "massgen", "v3" or "jinja"
  excel_file,   \* "absent": no argument; "missing": names no file; "present"
  output_file,  \* the second argument of the single-device script, or None
  xls,          \* the workbook of excel_file
  pc,           \* where the run is
  col_map,      \* the detected Inventory columns
  i,            \* the Inventory row the loop is at
  serial,       \* the locals serial, hostname, mgmt_ip of
  hostname,     \*   convert_excel_to_junos (serial_number in the
  mgmt_ip,      \*   single-device script)
  generated,    \* paths of the files written, in order
  config_text,  \* the last text build_config (or the join) returned
  fs,           \* the files written: path -> text
  stdout,       \* what was printed, in order
  returned,     \* what convert_excel_to_junos returned: "None", "generated"
  exit_code,    \* exit status of the process; -1 while it runs
  args,         \* generate_configs.py: the parsed arguments
  yaml_data,    \*   the devices list of the YAML file
  templates_dir,\*   the template files of --templates, None if no directory
  devices,      \*   the local devices of main
  results,      \*   the local results of main
  log           \*   the log records, in order

massgen_vars == <<excel_file, output_file, xls, col_map, serial, hostname, mgmt_ip,
                  generated, returned>>

jinja_vars == <<args, yaml_data, templates_dir, devices, results, log>>

vars == <<tool, pc, i, config_text, fs, stdout, exit_code, massgen_vars, jinja_vars>>

Say(msg, items) == [msg |-> msg, args |-> items]

NoColMap == [key \in {"serial", "hostname", "mgmt_ip"} |-> None]

Init ==
  /\ \/ /\ tool \in {"massgen", "v3"}
        /\ excel_file \in {"absent", "missing"}
        /\ xls = NoBook
        /\ output_file = None
        /\ args = NoArgs /\ yaml_data = <<>> /\ templates_dir = None
     \/ /\ tool = "massgen"
        /\ excel_file = "present"
        /\ xls \in Workbooks
        /\ output_file = None
        /\ args = NoArgs /\ yaml_data = <<>> /\ templates_dir = None
     \/ /\ tool = "v3"
        /\ excel_file = "present"
        /\ \/ xls \in LegacyBooks /\ output_file = None
           \/ xls \in OrderBooks /\ output_file = <<"out.txt">>
        /\ args = NoArgs /\ yaml_data = <<>> /\ templates_dir = None
     \/ /\ tool = "jinja"
        /\ excel_file = "unused" /\ xls = NoBook /\ output_file = None
        /\ \E run \in JinjaRuns :
             /\ args = run.args
             /\ yaml_data = run.yaml_data
             /\ templates_dir = run.templates_dir
  /\ devices = <<>>
  /\ results = [ok |-> <<>>, failed |-> <<>>]
  /\ log = <<>>
  /\ pc = "main"
  /\ col_map = NoColMap
  /\ i = 0
  /\ serial = None
  /\ hostname = None
  /\ mgmt_ip = None
  /\ generated = <<>>
  /\ config_text = <<>>
  /\ fs = <<>>
  /\ stdout = <<>>
  /\ returned = "unset"
  /\ exit_code = -1

\* __main__ of either script: fewer than two argv entries print the usage
\* and exit 1
Usage ==
  /\ pc = "main" /\ excel_file = "absent"
  /\ stdout' = Append(stdout, Say("Usage", <<>>))
  /\ exit_code' = 1
  /\ pc' = "done"
  /\ UNCHANGED <<jinja_vars, tool, excel_file, output_file, xls, col_map, i, serial, hostname, mgmt_ip,
                 generated, config_text, fs, returned>>

\* convert_excel_to_junos of either script: excel_file does not exist
FileNotFound ==
  /\ pc = "main" /\ excel_file = "missing"
  /\ stdout' = Append(stdout, Say("Error: File not found", <<>>))
  /\ returned' = "None"
  /\ pc' = "exit"
  /\ UNCHANGED <<jinja_vars, tool, excel_file, output_file, xls, col_map, i, serial, hostname, mgmt_ip,
                 generated, config_text, fs, exit_code>>

df_inv == xls.sheets["Inventory"]

\* inventory mode, up to the row loop: column detection
InventoryColumns ==
  /\ tool = "massgen" /\ pc = "main" /\ excel_file = "present" /\ InSheets(xls, "Inventory")
  /\ LET cm == detect_columns(stripped_columns(df_inv))
     IN  IF missing_keys(cm) # <<>>
         THEN /\ stdout' = stdout \o
                   <<Say("ERROR: Inventory sheet is missing columns for",
                         [k \in DOMAIN missing_keys(cm) |-> <<missing_keys(cm)[k]>>]),
                     Say("Found columns", stripped_columns(df_inv))>>
              /\ returned' = "None"
              /\ pc' = "exit"
              /\ UNCHANGED <<col_map, i>>
         ELSE /\ col_map' = cm
              /\ i' = 1
              /\ pc' = "inventory"
              /\ UNCHANGED <<stdout, returned>>
  /\ UNCHANGED <<jinja_vars, tool, excel_file, output_file, xls, serial, hostname, mgmt_ip, generated,
                 config_text, fs, exit_code>>

\* str(row[col_map[key]]).strip() of Inventory row k
inv_field(k, key) == strip(str(inv_cell(df_inv, df_inv.rows[k], col_map[key])))

\* the three locals the loop sets from the row it is at
ReadRow ==
  /\ serial' = inv_field(i, "serial")
  /\ hostname' = inv_field(i, "hostname")
  /\ mgmt_ip' = inv_field(i, "mgmt_ip")

\* `except Exception as e`: the error is printed and the function ends
Except(e) ==
  /\ stdout' = Append(stdout, Say("Error", << <<e>> >>))
  /\ returned' = "None"
  /\ pc' = "exit"

\* write_text(path) and open(path, 'w') raise when the directory of path is
\* absent: the output directory exists, a directory named inside a serial
\* may or may not
CanWrite(path, parent_exists) == ~contains(path, <<"/">>) \/ parent_exists

\* fs after path is written with text
Written(files, path, text) ==
  [p \in DOMAIN files \cup {path} |-> IF p = path THEN text ELSE files[p]]

\* one pass of the row loop: a blank or placeholder row is skipped; the
\* config of any other row is built and written, unless build_config or
\* write_text raises, which ends the run
InventoryRow ==
  /\ pc = "inventory" /\ i <= Len(df_inv.rows)
  /\ ReadRow
  /\ IF is_placeholder(serial')
     THEN /\ i' = i + 1
          /\ UNCHANGED <<pc, generated, config_text, fs, stdout, returned>>
     ELSE LET built == build_config(xls, serial', hostname', mgmt_ip')
              out_file == cfg_path(serial')
          IN  IF built.err # NoErr
              THEN /\ Except(built.err)
                   /\ UNCHANGED <<i, generated, config_text, fs>>
              ELSE \E parent_exists \in BOOLEAN :
                     IF CanWrite(out_file, parent_exists)
                     THEN /\ config_text' = built.text
                          /\ fs' = Written(fs, out_file, built.text)
                          /\ generated' = Append(generated, out_file)
                          /\ stdout' = Append(stdout,
                                              Say("written", <<out_file, hostname', mgmt_ip'>>))
                          /\ i' = i + 1
                          /\ UNCHANGED <<pc, returned>>
                     ELSE /\ config_text' = built.text
                          /\ Except("FileNotFoundError")
                          /\ UNCHANGED <<i, generated, fs>>
  /\ UNCHANGED <<jinja_vars, tool, excel_file, output_file, xls, col_map, exit_code>>

\* after the last row: the count is printed and the list returned
InventoryDone ==
  /\ pc = "inventory" /\ i > Len(df_inv.rows)
  /\ stdout' = Append(stdout, Say("config file(s) written", << <<ToString(Len(generated))>> >>))
  /\ returned' = "generated"
  /\ pc' = "exit"
  /\ UNCHANGED <<jinja_vars, tool, excel_file, output_file, xls, col_map, i, serial, hostname, mgmt_ip,
                 generated, config_text, fs, exit_code>>

\* the exception of the legacy branch before build_config, or "none"
legacy_read_error(wb) ==
  IF ~InSheets(wb, "System") THEN "ValueError"
  ELSE IF legacy_system_error(wb.sheets["System"]) # NoErr
       THEN legacy_system_error(wb.sheets["System"])
  ELSE legacy_mgmt_ip(wb).err

\* out_name of the legacy branch
legacy_out_name(ser, host) ==
  IF truthy(ser) THEN cfg_path(ser)
  ELSE IF truthy(host) THEN cfg_path(host)
  ELSE <<"switch.cfg">>

\* the legacy branch of a workbook without Inventory sheet: one file is
\* written, unless reading the sheets, build_config or write_text raises
Legacy ==
  /\ tool = "massgen" /\ pc = "main" /\ excel_file = "present" /\ ~InSheets(xls, "Inventory")
  /\ IF legacy_read_error(xls) # NoErr
     THEN /\ Except(legacy_read_error(xls))
          /\ UNCHANGED <<serial, hostname, mgmt_ip, generated, config_text, fs>>
     ELSE /\ serial' = legacy_param(xls.sheets["System"], s_serial_number)
          /\ hostname' = legacy_param(xls.sheets["System"], s_hostname)
          /\ mgmt_ip' = legacy_mgmt_ip(xls).ip
          /\ LET built == build_config(xls, or_default(serial', s_UNKNOWN),
                                       or_default(hostname', s_unknown), mgmt_ip')
                 out_file == legacy_out_name(serial', hostname')
             IN  IF built.err # NoErr
                 THEN /\ Except(built.err)
                      /\ UNCHANGED <<generated, config_text, fs>>
                 ELSE \E parent_exists \in BOOLEAN :
                        IF CanWrite(out_file, parent_exists)
                        THEN /\ config_text' = built.text
                             /\ fs' = Written(fs, out_file, built.text)
                             /\ generated' = <<out_file>>
                             /\ stdout' = Append(stdout,
                                                 Say("Configuration written to", <<out_file>>))
                             /\ returned' = "generated"
                             /\ pc' = "exit"
                        ELSE /\ config_text' = built.text
                             /\ Except("FileNotFoundError")
                             /\ UNCHANGED <<generated, fs>>
  /\ UNCHANGED <<jinja_vars, tool, excel_file, output_file, xls, col_map, i, exit_code>>

\* the single-device script: the text is written, or printed when no file
\* name can be derived, unless a sheet generator, the unassigned
\* system_commands or open() raises
V3Convert ==
  /\ tool = "v3" /\ pc = "main" /\ excel_file = "present"
  /\ LET built == v3_all_commands(xls)
         out_file == v3_final_output_file(xls, output_file)
     IN  IF built.err # NoErr
         THEN /\ Except(built.err)
              /\ UNCHANGED <<serial, hostname, generated, config_text, fs>>
         ELSE /\ serial' = v3_serial_number(xls)
              /\ hostname' = v3_hostname(xls)
              /\ config_text' = join(<<"\n">>, built.cmds)
              /\ IF out_file = None
                 THEN /\ stdout' = Append(stdout, Say("config_text", <<config_text'>>))
                      /\ returned' = "generated"
                      /\ pc' = "exit"
                      /\ UNCHANGED <<generated, fs>>
                 ELSE \E parent_exists \in BOOLEAN :
                        IF CanWrite(out_file, parent_exists)
                        THEN /\ fs' = Written(fs, out_file, config_text')
                             /\ generated' = <<out_file>>
                             /\ stdout' = Append(stdout,
                                                 Say("Configuration written to", <<out_file>>))
                             /\ returned' = "generated"
                             /\ pc' = "exit"
                        ELSE /\ Except("FileNotFoundError")
                             /\ UNCHANGED <<generated, fs>>
  /\ UNCHANGED <<jinja_vars, tool, excel_file, output_file, xls, col_map, i, mgmt_ip, exit_code>>

\* main of generate_configs.py up to the device loop: load_devices, the
\* --serial filter, build_jinja_env; each of them may end the run with 1
JinjaLoad ==
  /\ tool = "jinja" /\ pc = "main"
  /\ LET loaded == load_devices(yaml_data)
         wanted == IF truthy(args.serial)
                   THEN SelectSeq(loaded.devices, LAMBDA d : d["serial"] = args.serial)
                   ELSE loaded.devices
         start  == <<Entry("INFO", "Loading devices from", <<>>)>>
         stop(entries) == /\ log' = log \o start \o entries
                          /\ exit_code' = 1
                          /\ pc' = "done"
                          /\ UNCHANGED <<devices, i>>
     IN  IF ~args.devices_exists
         THEN stop(<<Entry("ERROR", "Devices file not found", <<>>)>>)
         ELSE IF loaded.exit
         THEN stop(loaded.log)
         ELSE IF wanted = <<>>
         THEN stop(loaded.log \o <<Entry("ERROR", "Serial not found in devices file",
                                         <<args.serial>>)>>)
         ELSE IF templates_dir = None
         THEN stop(loaded.log \o <<Entry("INFO", "Building Jinja2 environment from", <<>>),
                                   Entry("ERROR", "Templates directory not found", <<>>)>>)
         ELSE /\ log' = log \o start \o loaded.log
                        \o <<Entry("INFO", "Building Jinja2 environment from", <<>>),
                             Entry("INFO", "Templates to render (in order)",
                                   args.templates_list)>>
              /\ devices' = wanted
              /\ i' = 1
              /\ pc' = "devices"
              /\ UNCHANGED exit_code
  /\ UNCHANGED <<tool, massgen_vars, args, yaml_data, templates_dir, results,
                 config_text, fs, stdout>>

\* one pass of the device loop of main: the config is generated and, unless
\* --dry-run, written; write_text raising ends the process with a traceback
JinjaDevice ==
  /\ tool = "jinja" /\ pc = "devices" /\ i <= Len(devices)
  /\ \E now_str \in Clock, parent_exists \in BOOLEAN :
       LET device == devices[i]
           config == generate_device_config(device, templates_dir, args.templates_list, now_str)
           out_file == conf_path(device["serial"])
           info == <<Entry("INFO", "Generating config for", <<device["serial"], device["model"]>>)>>
       IN  /\ config_text' = config.text
           /\ IF args.dry_run
              THEN /\ stdout' = Append(stdout, Say("config", <<config.text>>))
                   /\ log' = log \o info \o config.log
                   /\ i' = i + 1
                   /\ UNCHANGED <<fs, results, pc, exit_code>>
              ELSE IF CanWrite(out_file, parent_exists)
              THEN /\ fs' = Written(fs, out_file, config.text)
                   /\ log' = log \o info \o config.log
                             \o <<Entry("INFO", "Written", <<out_file>>)>>
                   /\ results' = [results EXCEPT !.ok = Append(@, device["serial"])]
                   /\ i' = i + 1
                   /\ UNCHANGED <<stdout, pc, exit_code>>
              ELSE /\ log' = log \o info \o config.log
                   /\ stdout' = Append(stdout, Say("Traceback", << <<"FileNotFoundError">> >>))
                   /\ exit_code' = 1
                   /\ pc' = "done"
                   /\ UNCHANGED <<fs, results, i>>
  /\ UNCHANGED <<tool, massgen_vars, args, yaml_data, templates_dir, devices>>

\* main after the loop: the summary, and exit 1 when results["failed"] is
\* not empty
JinjaDone ==
  /\ tool = "jinja" /\ pc = "devices" /\ i > Len(devices)
  /\ IF ~args.dry_run
     THEN /\ log' = log
                    \o <<Entry("INFO", "Done. succeeded, failed",
                               << <<ToString(Len(results.ok))>>,
                                  <<ToString(Len(results.failed))>> >>)>>
                    \o (IF results.failed # <<>>
                        THEN <<Entry("WARNING", "Failed serials", results.failed)>>
                        ELSE <<>>)
          /\ exit_code' = IF results.failed # <<>> THEN 1 ELSE 0
     ELSE /\ exit_code' = 0
          /\ UNCHANGED log
  /\ pc' = "done"
  /\ UNCHANGED <<tool, massgen_vars, args, yaml_data, templates_dir, devices, results, i,
                 config_text, fs, stdout>>

\* __main__ of either script after convert_excel_to_junos returned: the
\* script ends
Exit ==
  /\ pc = "exit"
  /\ exit_code' = 0
  /\ pc' = "done"
  /\ UNCHANGED <<jinja_vars, tool, excel_file, output_file, xls, col_map, i, serial, hostname, mgmt_ip,
                 generated, config_text, fs, stdout, returned>>

Next ==
  \/ Usage
  \/ FileNotFound
  \/ InventoryColumns
  \/ InventoryRow
  \/ InventoryDone
  \/ Legacy
  \/ V3Convert
  \/ Exit
  \/ JinjaLoad
  \/ JinjaDevice
  \/ JinjaDone

Spec == Init /\ [][Next]_vars

(***************************************************************************)
(* Properties                                                              *)
(***************************************************************************)
\* a run of the inventory generator on a workbook with an Inventory sheet
InventoryMode == tool = "massgen" /\ excel_file = "present" /\ InSheets(xls, "Inventory")

\* the run found the three columns and entered the row loop
InLoop == InventoryMode /\ col_map # NoColMap

\* the serial cell of Inventory row k
serial_cell(k) == inv_cell(df_inv, df_inv.rows[k], col_map["serial"])

\* a serial cell that is blank, empty after trimming, or a placeholder token
PlaceholderCell(cell) ==
  \/ cell = NaN
  \/ strip(cell) = <<>>
  \/ lower(strip(cell)) \in {s_serial_number_ph, s_hash}

\* record k qualifies: its serial is neither blank nor a placeholder
Qualifies(k) == ~PlaceholderCell(serial_cell(k))

\* the configuration of record k, built on workbook wb
ConfigOf(wb, k) ==
  build_config(wb, inv_field(k, "serial"), inv_field(k, "hostname"), inv_field(k, "mgmt_ip"))

\* the path of the file of record k
PathOf(k) == cfg_path(inv_field(k, "serial"))

\* record k, taken alone, can be assembled and written
Producible(wb, k) == ConfigOf(wb, k).err = NoErr /\ ~contains(PathOf(k), <<"/">>)

\* C1: in inventory mode a failure at one record never prevents the file of
\* a later qualifying record: when the run has ended, every qualifying
\* record that can itself be assembled and written has its file.
C1_FailureDoesNotStopLaterRecords ==
  (InLoop /\ pc = "done") =>
    \A j \in DOMAIN df_inv.rows :
      (Qualifies(j) /\ Producible(xls, j)) =>
        (PathOf(j) \in DOMAIN fs /\ fs[PathOf(j)] = ConfigOf(xls, j).text)

\* C2 (state): no file, no entry of `generated` and no "written" report
\* bears the name of a row whose serial is blank or a placeholder.
C2_NothingForPlaceholderRows ==
  InLoop =>
    \A k \in DOMAIN df_inv.rows :
      PlaceholderCell(serial_cell(k)) =>
        /\ PathOf(k) \notin DOMAIN fs
        /\ \A g \in DOMAIN generated : generated[g] # PathOf(k)
        /\ \A m \in DOMAIN stdout : stdout[m].msg = "written" => stdout[m].args[1] # PathOf(k)

\* C2 (step): the pass of the loop over such a row builds no config
\* (config_text keeps the last built text), writes and reports nothing, and
\* leaves the list of generated files as it is.
C2_PlaceholderPass ==
  (InLoop /\ pc = "inventory" /\ i <= Len(df_inv.rows) /\ PlaceholderCell(serial_cell(i))) =>
    /\ UNCHANGED <<fs, generated, config_text, stdout, returned>>
    /\ i' = i + 1
    /\ pc' = "inventory"

\* C2: in inventory mode a row whose serial, after trimming, is empty or a
\* placeholder token ('serial number', '#', in any case, or a blank cell)
\* gets no output file, no build_config call and no place in the list or
\* count of generated files, wherever it stands in the sheet.
C2_PlaceholderRowsProduceNothing ==
  []C2_NothingForPlaceholderRows /\ [][C2_PlaceholderPass]_vars

\* a run that skipped a placeholder row and wrote a file for another row
C2_Witness ==
  /\ InLoop /\ pc = "done" /\ returned = "generated"
  /\ Len(generated) >= 1
  /\ \E k \in DOMAIN df_inv.rows : PlaceholderCell(serial_cell(k)) /\ k > 1

\* a v3-user row of the SNMP sheet whose Authorization or Privacy is
\* non-blank and has no colon
bad_snmp_row(row) ==
  /\ {"Community/User", "Type"} \subseteq DOMAIN row
  /\ nonblank(row["Community/User"])
  /\ row["Type"] = s_v3_user
  /\ \/ nonblank(get(row, "Authorization", <<>>))
        /\ ~contains(get(row, "Authorization", <<>>), <<":">>)
     \/ nonblank(get(row, "Privacy", <<>>))
        /\ ~contains(get(row, "Privacy", <<>>), <<":">>)

HasBadSnmpRow(wb) ==
  InSheets(wb, "SNMP")
  /\ \E k \in DOMAIN wb.sheets["SNMP"].rows : bad_snmp_row(wb.sheets["SNMP"].rows[k])

\* the workbook wb with those rows taken out of its SNMP sheet
WithoutBadSnmpRows(wb) ==
  [wb EXCEPT !.sheets["SNMP"].rows = SelectSeq(@, LAMBDA r : ~bad_snmp_row(r))]

\* C3: a v3-user row whose Authorization or Privacy has no colon is an
\* error for that row only: the device's file is still written, and it
\* holds what the workbook without that row gives (no line of the row, the
\* other SNMP rows mapped).
C3_BadSnmpRowDropsOnlyItself ==
  (InLoop /\ pc = "done" /\ HasBadSnmpRow(xls)) =>
    \A k \in DOMAIN df_inv.rows :
      (Qualifies(k) /\ Producible(WithoutBadSnmpRows(xls), k)) =>
        (PathOf(k) \in DOMAIN fs /\ fs[PathOf(k)] = ConfigOf(WithoutBadSnmpRows(xls), k).text)

\* field cannot be located: no column name contains, in lower case, one of
\* the field's tokens
NotLocated(field) ==
  \A k \in DOMAIN df_inv.columns :
    LET lc == lower(df_inv.columns[k])
    IN  CASE field = "serial"   -> ~contains(lc, s_serial)
          [] field = "hostname" -> ~contains(lc, s_host)
          [] field = "mgmt_ip"  -> ~(contains(lc, s_ip) \/ contains(lc, s_mgmt)
                                     \/ contains(lc, s_management))

\* C4: in inventory mode, when one of serial, hostname, management IP
\* cannot be located among the column names, the run ends before any row is
\* processed: nothing is built or written, and the error printed lists the
\* missing fields and the column names found.
C4_MissingColumnAbortsRun ==
  (InventoryMode /\ pc # "main" /\ \E f \in {"serial", "hostname", "mgmt_ip"} : NotLocated(f)) =>
    /\ pc \in {"exit", "done"}
    /\ returned = "None"
    /\ i = 0 /\ col_map = NoColMap
    /\ fs = <<>> /\ generated = <<>> /\ config_text = <<>>
    /\ Len(stdout) = 2
    /\ stdout[1].msg = "ERROR: Inventory sheet is missing columns for"
    /\ \A f \in {"serial", "hostname", "mgmt_ip"} :
         NotLocated(f) => \E m \in DOMAIN stdout[1].args : stdout[1].args[m] = <<f>>
    /\ stdout[2].msg = "Found columns"
    /\ stdout[2].args = [k \in DOMAIN df_inv.columns |-> strip(df_inv.columns[k])]

\* an ended run on an Inventory sheet with rows and two fields not located
C4_Witness ==
  /\ InventoryMode /\ pc = "done"
  /\ Len(df_inv.rows) >= 2
  /\ NotLocated("serial") /\ NotLocated("mgmt_ip") /\ ~NotLocated("hostname")

\* the run printed or logged an error
ErrorReported ==
  \/ \E m \in DOMAIN stdout :
       stdout[m].msg \in {"Error", "Error: File not found", "Traceback",
                          "ERROR: Inventory sheet is missing columns for"}
  \/ \E m \in DOMAIN log : log[m].level = "ERROR"

\* the serials of the devices a template could not be rendered for
RenderFailedSerials ==
  {log[m].args[2] : m \in {n \in DOMAIN log : log[n].msg = "Error rendering"}}

\* C5: the exit status is 0 only on full success: a run that ends with
\* status 0 located its input and its templates and reported no error, and
\* every device that failed is among the failed serials of the summary.
C5_ExitZeroOnlyOnFullSuccess ==
  (pc = "done" /\ exit_code = 0) =>
    /\ ~ErrorReported
    /\ tool \in {"massgen", "v3"} => excel_file = "present"
    /\ tool = "jinja" =>
         /\ args.devices_exists /\ templates_dir # None
         /\ \A s \in RenderFailedSerials :
              \E k \in DOMAIN results.failed : results.failed[k] = s

\* the qualifying records of the Inventory sheet
QualifyingRecords == {k \in DOMAIN df_inv.rows : Qualifies(k)}

\* <serial>.cfg of record k
NameOf(k) == strip(str(serial_cell(k))) \o <<".cfg">>

\* the inventory run went through every row
InventoryCompleted == InLoop /\ pc = "done" /\ returned = "generated"

\* the count the run printed last
ReportedCount == stdout[Len(stdout)].args[1][1]

\* C6 as stated: after an inventory run that completes there is exactly
\* one file per qualifying record, named <serial>.cfg in the output
\* directory and holding the record's configuration; the number of files
\* is the number of qualifying records and the reported count.
C6_OneFilePerQualifyingRecord ==
  InventoryCompleted =>
    /\ \A k \in QualifyingRecords :
         /\ NameOf(k) \in DOMAIN fs
         /\ fs[NameOf(k)] = ConfigOf(xls, k).text
         /\ ~contains(NameOf(k), <<"/">>)
    /\ Cardinality(DOMAIN fs) = Cardinality(QualifyingRecords)
    /\ ReportedCount = ToString(Cardinality(QualifyingRecords))

\* the trimmed serials of the qualifying records differ pairwise and name
\* a file of the output directory itself
SerialsDistinctAndPlain ==
  /\ \A j, k \in QualifyingRecords : j # k => NameOf(j) # NameOf(k)
  /\ \A k \in QualifyingRecords : ~contains(NameOf(k), <<"/">>)

\* a run of generate_configs.py that wrote its files and ended with 0
JinjaCompleted == tool = "jinja" /\ pc = "done" /\ exit_code = 0 /\ ~args.dry_run

JinjaSerialsDistinctAndPlain ==
  /\ \A j, k \in DOMAIN devices : j # k => devices[j]["serial"] # devices[k]["serial"]
  /\ \A k \in DOMAIN devices : ~contains(devices[k]["serial"], <<"/">>)

\* C6 (amended): when the trimmed serials of the qualifying records are
\* pairwise distinct and hold no path separator, a completed inventory run
\* leaves exactly the files <serial>.cfg of the qualifying records, each
\* with its record's configuration, and reports their number; the same
\* holds of the <serial>.conf files of a completed generate_configs.py run.
C6_OneFilePerDistinctSerial ==
  /\ (InventoryCompleted /\ SerialsDistinctAndPlain) =>
       /\ DOMAIN fs = {NameOf(k) : k \in QualifyingRecords}
       /\ \A k \in QualifyingRecords : fs[NameOf(k)] = ConfigOf(xls, k).text
       /\ Cardinality(DOMAIN fs) = Cardinality(QualifyingRecords)
       /\ Len(generated) = Cardinality(QualifyingRecords)
       /\ ReportedCount = ToString(Cardinality(QualifyingRecords))
  /\ (JinjaCompleted /\ JinjaSerialsDistinctAndPlain) =>
       /\ DOMAIN fs = {devices[k]["serial"] \o <<".conf">> : k \in DOMAIN devices}
       /\ \A k \in DOMAIN devices :
            \E now_str \in Clock :
              fs[devices[k]["serial"] \o <<".conf">>]
                = generate_device_config(devices[k], templates_dir,
                                         args.templates_list, now_str).text
       /\ Cardinality(DOMAIN fs) = Len(devices)
       /\ Len(results.ok) = Len(devices)

\* a completed inventory run over two qualifying records of distinct
\* serials and a placeholder row
C6_Witness ==
  /\ InventoryCompleted /\ SerialsDistinctAndPlain
  /\ Cardinality(QualifyingRecords) = 2
  /\ Len(df_inv.rows) = 3
  /\ Cardinality(DOMAIN fs) = 2

Range(s) == {s[k] : k \in DOMAIN s}

\* text.split('\n'): the lines of a document
splitlines(text) ==
  LET nl == <<0>> \o SelectSeq([k \in 1..Len(text) |-> k], LAMBDA k : text[k] = "\n")
            \o <<Len(text) + 1>>
  IN  [j \in 1..(Len(nl) - 1) |-> SubSeq(text, nl[j] + 1, nl[j + 1] - 1)]

\* a document of one of the Excel generators has been assembled
DocBuilt == tool \in {"massgen", "v3"} /\ excel_file = "present" /\ config_text # <<>>

\* ... and the locals serial, hostname, mgmt_ip are those it was built with
DocCurrent ==
  /\ DocBuilt /\ returned # "None"
  /\ InventoryMode => ~is_placeholder(serial)

FixedOrder ==
  <<"NTP", "Syslog", "TACACS", "VLANs", "IRB_Interfaces", "Interfaces", "Hardening", "SNMP">>

\* the first line of the section of a domain
HeaderOf(domain) ==
  CASE domain = "System"         -> <<"# System Configuration">>
    [] domain = "NTP"            -> <<"# NTP Configuration">>
    [] domain = "Syslog"         -> <<"# Syslog Configuration">>
    [] domain = "TACACS"         -> <<"# TACACS+ Configuration">>
    [] domain = "VLANs"          -> <<"# VLAN Configuration">>
    [] domain = "IRB_Interfaces" -> <<"# IRB Interface Configuration">>
    [] domain = "Interfaces"     -> <<"# Interface Configuration">>
    [] domain = "Hardening"      -> <<"# Security Hardening Configuration">>
    [] domain = "SNMP"           -> <<"# SNMP Configuration">>
    [] domain = "Management"     -> <<"# Management Interface Configuration">>

\* the lines of a document at which the section of a domain starts
Starts(lines, domain) == {k \in DOMAIN lines : lines[k] = HeaderOf(domain)}

\* the section of domain a starts before that of domain b
Before(lines, a, b) == \A j \in Starts(lines, a), k \in Starts(lines, b) : j < k

\* C7 as stated: the sections of NTP, Syslog, TACACS, VLANs,
\* IRB_Interfaces, Interfaces, Hardening, SNMP stand in this order in the
\* document, whatever the order of the sheets.
C7_SectionsInFixedOrder ==
  DocBuilt =>
    LET lines == splitlines(config_text)
    IN  \A a, b \in DOMAIN FixedOrder : a < b => Before(lines, FixedOrder[a], FixedOrder[b])

\* C7 (amended): each of these domains that has a sheet has exactly one
\* section, a domain without sheet has none, and the sections stand in the
\* order of their sheets in the workbook.
C7_SectionsInSheetOrder ==
  DocBuilt =>
    LET lines == splitlines(config_text)
    IN  /\ \A a \in DOMAIN FixedOrder :
             Cardinality(Starts(lines, FixedOrder[a]))
               = IF InSheets(xls, FixedOrder[a]) THEN 1 ELSE 0
        /\ \A j, k \in DOMAIN xls.sheet_names :
             (j < k /\ {xls.sheet_names[j], xls.sheet_names[k]} \subseteq Range(FixedOrder)) =>
               Before(lines, xls.sheet_names[j], xls.sheet_names[k])

\* a document of the inventory generator whose workbook has the SNMP sheet
\* before the NTP sheet
C7_Witness ==
  /\ DocBuilt /\ tool = "massgen" /\ InSheets(xls, "Inventory")
  /\ Starts(splitlines(config_text), "SNMP") # {}
  /\ Starts(splitlines(config_text), "NTP") # {}
  /\ \E j, k \in DOMAIN xls.sheet_names :
       j < k /\ xls.sheet_names[j] = "SNMP" /\ xls.sheet_names[k] = "NTP"

\* the address line of a Management row with address ip
AddressLine(row, ip) ==
  <<"set interfaces ">> \o row["Interface"] \o <<" unit 0 family inet address ">>
  \o ip \o <<"/">> \o str(row["Prefix Length"])

\* C8 as stated: with a Management sheet, the Management section is the
\* last section of the document, after the System section and the section
\* of every other domain, for every order of the sheets, and its address
\* lines carry the management IP of the device override.
C8_ManagementSectionLast ==
  (DocCurrent /\ InSheets(xls, "Management")) =>
    LET lines == splitlines(config_text)
    IN  /\ Cardinality(Starts(lines, "Management")) = 1
        /\ Before(lines, "System", "Management")
        /\ \A a \in DOMAIN FixedOrder : Before(lines, FixedOrder[a], "Management")
        /\ tool = "massgen" =>
             \A r \in DOMAIN xls.sheets["Management"].rows :
               LET row == xls.sheets["Management"].rows[r]
               IN  nonblank(row["Interface"]) =>
                     \E k \in DOMAIN lines : lines[k] = AddressLine(row, mgmt_ip)

\* C8 (amended): in the inventory generator (build_config), with a
\* Management sheet, the document ends with the Management section, after
\* the System section and the section of every other domain, for every
\* order of the sheets; the section is what the Management mapper gives
\* for the management IP of the device, whose address lines carry that IP
\* when it is not empty.
C8_ManagementLastInBuildConfig ==
  (DocCurrent /\ tool = "massgen" /\ InSheets(xls, "Management")) =>
    LET df == xls.sheets["Management"]
        m  == generate_management_config(df, mgmt_ip).cmds
        lines == splitlines(config_text)
        n  == Len(lines)
    IN  /\ Starts(lines, "Management") = {n - Len(m) + 1}
        /\ SubSeq(lines, n - Len(m) + 1, n) = m
        /\ Before(lines, "System", "Management")
        /\ \A a \in DOMAIN FixedOrder : Before(lines, FixedOrder[a], "Management")
        /\ mgmt_ip # <<>> =>
             \A r \in DOMAIN df.rows :
               nonblank(df.rows[r]["Interface"]) =>
                 \E k \in (n - Len(m) + 1)..n : lines[k] = AddressLine(df.rows[r], mgmt_ip)

\* an inventory document whose workbook has the Management sheet before
\* another domain's sheet and after the Inventory sheet
C8_Witness ==
  /\ DocCurrent /\ tool = "massgen" /\ InSheets(xls, "Inventory")
  /\ mgmt_ip = <<"1", "0", ".", "1">>
  /\ \E j, k \in DOMAIN xls.sheet_names :
       /\ j < k /\ xls.sheet_names[j] = "Management"
       /\ xls.sheet_names[k] \in Range(FixedOrder)
       /\ Starts(splitlines(config_text), xls.sheet_names[k]) # {}
  /\ \E r \in DOMAIN xls.sheets["Management"].rows :
       nonblank(xls.sheets["Management"].rows[r]["Interface"])

\* the System sheet has a row of parameter param
HasRow(df, param) ==
  \E k \in DOMAIN df.rows : get(df.rows[k], "Parameter", NaN) = param

\* the lines of the System section of a document: from the line after its
\* header to the line before the next empty line
SystemSection(lines) ==
  LET s == CHOOSE k \in DOMAIN lines : lines[k] = HeaderOf("System")
      e == CHOOSE k \in (s + 1)..Len(lines) :
             lines[k] = <<>> /\ \A j \in (s + 1)..(k - 1) : lines[j] # <<>>
  IN  SubSeq(lines, s + 1, e - 1)

\* a document of the inventory generator built with the override (serial,
\* hostname) on a System sheet that has hostname and serial_number rows
OverriddenSystemDoc ==
  /\ DocCurrent /\ InventoryMode /\ InSheets(xls, "System")
  /\ HasRow(xls.sheets["System"], s_hostname)
  /\ HasRow(xls.sheets["System"], s_serial_number)

\* the rows of the System sheet other than hostname and serial_number
\* whose value is not blank
OtherRows(df) ==
  {k \in DOMAIN df.rows :
     /\ df.rows[k]["Parameter"] \notin {s_hostname, s_serial_number}
     /\ nonblank(get(df.rows[k], "Value", NaN))}

\* C9 as stated: for a System sheet with hostname and serial_number rows,
\* the document assembled with override (serial, hostname) has the header
\* line '# Switch Serial Number: <serial>', the line 'set system host-name
\* <hostname>' in its System section and no host-name line with the table's
\* own value, and a line with its own value for every other non-blank row.
C9_OverrideReplacesSystemIdentity ==
  OverriddenSystemDoc =>
    LET lines == splitlines(config_text)
        sys   == SystemSection(lines)
        df    == xls.sheets["System"]
    IN  /\ \E k \in DOMAIN lines : lines[k] = <<"# Switch Serial Number: ">> \o serial
        /\ \E k \in DOMAIN sys : sys[k] = <<"set system host-name ">> \o hostname
        /\ \A r \in DOMAIN df.rows :
             (df.rows[r]["Parameter"] = s_hostname /\ nonblank(get(df.rows[r], "Value", NaN))
                /\ df.rows[r]["Value"] # hostname) =>
               \A k \in DOMAIN sys : sys[k] # <<"set system host-name ">> \o df.rows[r]["Value"]
        /\ \A r \in OtherRows(df) :
             \E k \in DOMAIN sys : contains(sys[k], df.rows[r]["Value"])

\* the line of a System row of a parameter the mapper knows
SystemLine(param, value) ==
  CASE param = s_domain_name   -> <<"set system domain-name ">> \o value
    [] param = s_root_password ->
         <<"set system root-authentication encrypted-password \"">> \o value \o <<"\"">>
    [] param = s_time_zone     -> <<"set system time-zone ">> \o value
    [] param = s_login_message -> <<"set system login message \"">> \o value \o <<"\"">>
    [] OTHER                   -> <<"set system name-server ">> \o value

Recognised(param) ==
  \/ param \in {s_domain_name, s_root_password, s_time_zone, s_login_message}
  \/ (Len(param) >= Len(s_name_server) /\ SubSeq(param, 1, Len(s_name_server)) = s_name_server)

\* C9 (amended): for a System sheet with hostname and serial_number rows,
\* every document assembled with override (serial, hostname) has the header
\* line '# Switch Serial Number: <serial>'; its System section has the line
\* 'set system host-name <hostname>' once per hostname row when the
\* override hostname is not empty and no host-name line when it is empty,
\* never a host-name line with the table's own value; every other
\* non-blank row whose parameter is domain_name, root_password, time_zone,
\* login_message or name_server* gives its line with its own value, and a
\* row of any other parameter gives no line.
C9_OverrideAndRecognisedRows ==
  OverriddenSystemDoc =>
    LET lines == splitlines(config_text)
        sys   == SystemSection(lines)
        df    == xls.sheets["System"]
        hostlines == {k \in DOMAIN sys : sys[k][1] = "set system host-name "}
        hostrows  == {r \in DOMAIN df.rows : df.rows[r]["Parameter"] = s_hostname}
        known     == {r \in OtherRows(df) : Recognised(df.rows[r]["Parameter"])}
    IN  /\ lines[3] = <<"# Switch Serial Number: ">> \o serial
        /\ \A k \in hostlines : sys[k] = <<"set system host-name ">> \o hostname
        /\ Cardinality(hostlines) = IF hostname = <<>> THEN 0 ELSE Cardinality(hostrows)
        /\ \A r \in known :
             \E k \in DOMAIN sys :
               sys[k] = SystemLine(df.rows[r]["Parameter"], df.rows[r]["Value"])
        /\ Len(sys) = Cardinality(hostlines) + Cardinality(known)

\* a document built with hostname s1 on a System sheet whose hostname row
\* holds another name, with a serial_number row and a row the mapper knows
C9_Witness ==
  /\ OverriddenSystemDoc
  /\ hostname = <<"s", "1">>
  /\ \E r \in DOMAIN xls.sheets["System"].rows :
       /\ xls.sheets["System"].rows[r]["Parameter"] = s_hostname
       /\ nonblank(xls.sheets["System"].rows[r]["Value"])
       /\ xls.sheets["System"].rows[r]["Value"] # hostname
  /\ \E r \in OtherRows(xls.sheets["System"]) :
       Recognised(xls.sheets["System"].rows[r]["Parameter"])
  /\ cfg_path(serial) \in DOMAIN fs

\* the Management sheet is mapped with the management IP of the device
ManagementMapped == tool = "massgen" /\ InSheets(xls, "Management") /\ mgmt_ip # None

\* C10: in the Management mapper an override IP changes only the address
\* of the address lines: the lines with the override are those without it,
\* line by line, except that an address line carries the override instead
\* of the row's IP Address; the description line, the prefix length and
\* the next-hop line of every row are the row's own.
C10_OverrideChangesOnlyAddress ==
  ManagementMapped =>
    LET df      == xls.sheets["Management"]
        with    == generate_management_config(df, mgmt_ip)
        without == generate_management_config(df, None)
        rows    == {r \in DOMAIN df.rows : nonblank(df.rows[r]["Interface"])}
    IN  without.err = NoErr =>
          /\ with.err = NoErr
          /\ Len(with.cmds) = Len(without.cmds)
          /\ \A k \in DOMAIN with.cmds :
               \/ with.cmds[k] = without.cmds[k]
               \/ /\ mgmt_ip # <<>>
                  /\ \E r \in rows :
                       /\ without.cmds[k] = AddressLine(df.rows[r], str(df.rows[r]["IP Address"]))
                       /\ with.cmds[k] = AddressLine(df.rows[r], mgmt_ip)
          /\ \A r \in rows :
               /\ mgmt_ip # <<>> =>
                    \E k \in DOMAIN with.cmds : with.cmds[k] = AddressLine(df.rows[r], mgmt_ip)
               /\ nonblank(get(df.rows[r], "Description", NaN)) =>
                    \E k \in DOMAIN with.cmds :
                      with.cmds[k] = <<"set interfaces ">> \o df.rows[r]["Interface"]
                                     \o <<" description \"">> \o df.rows[r]["Description"]
                                     \o <<"\"">>
               /\ nonblank(get(df.rows[r], "Gateway", NaN)) =>
                    \E k \in DOMAIN with.cmds :
                      with.cmds[k] = <<"set routing-options static route 0.0.0.0/0 next-hop ">>
                                     \o df.rows[r]["Gateway"]

\* a written inventory document whose Management row has a description, a
\* gateway and an IP Address other than the override
C10_Witness ==
  /\ ManagementMapped /\ DocCurrent /\ InventoryMode
  /\ mgmt_ip = <<"1", "0", ".", "1">>
  /\ cfg_path(serial) \in DOMAIN fs
  /\ \E r \in DOMAIN xls.sheets["Management"].rows :
       LET row == xls.sheets["Management"].rows[r]
       IN  /\ {"Interface", "IP Address", "Description", "Gateway"} \subseteq DOMAIN row
           /\ nonblank(row["Interface"]) /\ nonblank(row["Description"])
           /\ nonblank(row["Gateway"]) /\ nonblank(row["IP Address"])
           /\ row["IP Address"] # mgmt_ip
           /\ \E k \in DOMAIN splitlines(config_text) :
                splitlines(config_text)[k] = AddressLine(row, mgmt_ip)


\* the row loop is at an Inventory row whose record, as passed to
\* build_config, is that of the row before it, which was assembled
MassRepeat ==
  /\ InLoop /\ pc = "inventory" /\ 1 < i /\ i <= Len(df_inv.rows)
  /\ Qualifies(i)
  /\ \A key \in {"serial", "hostname", "mgmt_ip"} : inv_field(i, key) = inv_field(i - 1, key)

\* the device loop is at a device equal to the device before it
JinjaRepeat ==
  /\ tool = "jinja" /\ pc = "devices" /\ 1 < i /\ i <= Len(devices)
  /\ devices[i] = devices[i - 1]

\* a document of generate_configs.py without the time of its header line
\* '# Generated: <now>'
Unstamped(text) ==
  [k \in DOMAIN text |-> IF k > 1 /\ text[k - 1] = "# Generated: " THEN "" ELSE text[k]]

TwoOverrides ==
  /\ InLoop /\ pc = "inventory" /\ 1 < i /\ i <= Len(df_inv.rows)
  /\ Qualifies(i - 1) /\ Qualifies(i)
  /\ \E key \in {"serial", "hostname", "mgmt_ip"} : inv_field(i, key) # inv_field(i - 1, key)
  /\ ConfigOf(xls, i).err = NoErr

\* a line 'set system host-name ...'
IsHostNameLine(line) == line # <<>> /\ line[1] = "set system host-name "

\* line k of a document is an address line of its Management section
IsManagementAddressLine(lines, k) ==
  /\ \E s \in Starts(lines, "Management") : s < k
  /\ \E j \in DOMAIN lines[k] : lines[k][j] = " unit 0 family inet address "

\* the lines 3 to 5 of a document: serial, hostname and management IP
IsOverrideHeaderLine(k) == k \in 3..5

\* two documents differ at no line other than the header lines, host-name
\* lines and Management address lines
DifferOnlyInOverrides(l1, l2) ==
  /\ Len(l1) = Len(l2)
  /\ \A k \in DOMAIN l1 :
       \/ l1[k] = l2[k]
       \/ IsOverrideHeaderLine(k)
       \/ IsHostNameLine(l1[k]) /\ IsHostNameLine(l2[k])
       \/ IsManagementAddressLine(l1, k) /\ IsManagementAddressLine(l2, k)

\* C12 as stated: the documents of two different overrides on the same
\* dataset are different, have the same number of lines, and differ only in
\* the header lines, the System host-name line and the Management address
\* lines, every other line being the same at the same position.
C12_OverridesChangeOnlyTheirLines ==
  [][TwoOverrides =>
       /\ config_text' # config_text
       /\ DifferOnlyInOverrides(splitlines(config_text), splitlines(config_text'))]_vars

\* C12 (amended): the two documents are different and, once the host-name
\* lines are taken out, have the same number of lines and differ only in
\* the header lines and the Management address lines; with two override
\* hostnames both empty or both not empty this holds of the documents as
\* they are, host-name lines included.  An empty override hostname leaves
\* the document without host-name line.
C12_OverridesChangeOnlyTheirLinesUpToHostName ==
  [][TwoOverrides =>
       LET l1 == splitlines(config_text)
           l2 == splitlines(config_text')
           rest(l) == SelectSeq(l, LAMBDA line : ~IsHostNameLine(line))
       IN  /\ config_text' # config_text
           /\ DifferOnlyInOverrides(rest(l1), rest(l2))
           /\ ((hostname = <<>>) <=> (hostname' = <<>>)) => DifferOnlyInOverrides(l1, l2)
           /\ hostname' = <<>> => \A k \in DOMAIN l2 : ~IsHostNameLine(l2[k])]_vars

\* two documents were written for records of different serial, hostname and
\* management IP, on a workbook with a hostname row and a Management row
C12_Witness ==
  /\ InLoop /\ pc = "inventory" /\ i = 3 /\ Len(generated) = 2
  /\ \A key \in {"serial", "hostname", "mgmt_ip"} :
       inv_field(1, key) # inv_field(2, key) /\ inv_field(1, key) # <<>> /\ inv_field(2, key) # <<>>
  /\ InSheets(xls, "System") /\ HasRow(xls.sheets["System"], s_hostname)
  /\ \E k \in DOMAIN splitlines(config_text) :
       IsManagementAddressLine(splitlines(config_text), k)

\* every domain sheet of the workbook is the well-formed sheet of its domain
DefaultSheets ==
  \A n \in DOMAIN xls.sheets \ {"Inventory"} : xls.sheets[n] = DefaultTable(n)

\* no 'Error: ...' was printed
NoErrorReported == \A k \in DOMAIN stdout : stdout[k].msg # "Error"

\* the lines the mapper of domain n gives for the sheet of n in the run
SectionOf(n) ==
  IF n = "System"
  THEN IF tool = "v3" THEN generate_system_config(xls.sheets[n]).cmds
       ELSE IF InventoryMode THEN system_with_overrides(xls.sheets[n], serial, hostname).cmds
       ELSE system_with_overrides(xls.sheets[n], or_default(serial, s_UNKNOWN),
                                  or_default(hostname, s_unknown)).cmds
  ELSE IF n = "Management"
  THEN generate_management_config(xls.sheets[n], IF tool = "v3" THEN None ELSE mgmt_ip).cmds
  ELSE IF n \in SheetHandlers THEN sheet_handlers(n, xls.sheets[n]).cmds
  ELSE <<>>

\* the number of lines of the header block of the document
HeaderLines == IF tool = "v3" THEN (IF truthy(serial) THEN 5 ELSE 4) ELSE 7

\* a finished run of an Excel generator on a workbook of at least one
\* sheet, all well-formed, of records whose serial names a file of the
\* output directory
WellFormedRun ==
  /\ tool \in {"massgen", "v3"} /\ excel_file = "present" /\ pc = "done"
  /\ xls.sheet_names # <<>> /\ DefaultSheets
  /\ InventoryMode =>
       /\ InLoop
       /\ \A k \in DOMAIN df_inv.rows : ~contains(str(serial_cell(k)), <<"/">>)

\* C13 as stated: whatever subset of the domain sheets the workbook has,
\* the System sheet included, generation completes without error, in the
\* inventory flow and in the single-device flow, and a domain without
\* sheet has no line in the document: the document is its header followed
\* by the sections of the sheets present.
C13_AbsentDomainsAreNoError ==
  WellFormedRun =>
    /\ NoErrorReported
    /\ returned = "generated"
    /\ DocCurrent =>
         LET lines == splitlines(config_text)
         IN  /\ \A n \in Domains : ~InSheets(xls, n) => Starts(lines, n) = {}
             /\ Len(lines) = HeaderLines
                             + Len(Flatten([k \in DOMAIN xls.sheet_names |->
                                              SectionOf(xls.sheet_names[k])]))

\* the Inventory rows the loop skipped: blank or placeholder serial
SkippedRecords == {k \in DOMAIN df_inv.rows : ~Qualifies(k)}

\* what the run printed other than the line of each file written and the
\* final count
SkipReports ==
  {k \in DOMAIN stdout : stdout[k].msg \notin {"written", "config file(s) written"}}

\* C14 as stated: no skip is silent: a completed inventory run has printed
\* one entry for every record it skipped, so that three records of which
\* one has a blank serial give two files and exactly one reported skip.
C14_EverySkipIsReported ==
  InventoryCompleted =>
    /\ Cardinality(SkipReports) = Cardinality(SkippedRecords)
    /\ (Len(df_inv.rows) = 3 /\ Cardinality(SkippedRecords) = 1
        /\ Cardinality({PathOf(k) : k \in QualifyingRecords}) = 2) =>
         (Cardinality(DOMAIN fs) = 2 /\ Cardinality(SkipReports) = 1)

\* the serial and hostname the document of the run was built with
BuiltSerial == IF InventoryMode THEN serial ELSE or_default(serial, s_UNKNOWN)
BuiltHostname == IF InventoryMode THEN hostname ELSE or_default(hostname, s_unknown)

\* the document the generator of the run builds for workbook wb and the
\* device of the run
Rebuild(wb) ==
  IF tool = "v3" THEN join(<<"\n">>, v3_all_commands(wb).cmds)
  ELSE build_config(wb, BuiltSerial, BuiltHostname, mgmt_ip).text

\* the fields a mapper reads with row.get: a row may lack them
OptionalFields(n) ==
  CASE n = "NTP"            -> {"Prefer"}
    [] n = "Syslog"         -> {"Facility", "Level"}
    [] n = "TACACS"         -> {"Port"}
    [] n = "VLANs"          -> {"L3 Interface"}
    [] n = "IRB_Interfaces" -> {"Description"}
    [] n = "Interfaces"     -> {"Description", "VLANs", "Native VLAN", "Speed", "Duplex",
                                "Enabled"}
    [] n = "Management"     -> {"Gateway", "Description"}
    [] n = "SNMP"           -> {"Authorization", "Privacy", "Access"}
    [] OTHER                -> {}

\* the fields a mapper tests before it emits anything for a row
Discriminator(n) ==
  CASE n = "System"         -> {"Value"}
    [] n = "NTP"            -> {"NTP Server"}
    [] n = "Syslog"         -> {"Syslog Server"}
    [] n = "TACACS"         -> {"TACACS Server"}
    [] n = "VLANs"          -> {"VLAN ID"}
    [] n = "IRB_Interfaces" -> {"Interface"}
    [] n = "Interfaces"     -> {"Interface"}
    [] n = "Management"     -> {"Interface"}
    [] n = "Hardening"      -> {"Feature", "Setting"}
    [] n = "SNMP"           -> {"Community/User"}
    [] OTHER                -> {}

\* a row as its mapper gets it: a System row of the inventory generator
\* after the overrides of build_config
AsMapped(n, row) ==
  IF n = "System" /\ tool = "massgen" /\ "Parameter" \in DOMAIN row
  THEN loc_set_value(loc_set_value(Table(DOMAIN row, <<row>>), s_hostname, BuiltHostname),
                     s_serial_number, BuiltSerial).rows[1]
  ELSE row

AllOptionalBlank(n, row) ==
  OptionalFields(n) # {} /\ \A c \in OptionalFields(n) : ~nonblank(get(row, c, NaN))

BlankDiscriminator(n, row) ==
  \E c \in Discriminator(n) : ~nonblank(get(AsMapped(n, row), c, NaN))

\* the workbook wb without the rows of its domain sheets that Drop holds of
WithoutRows(wb, Drop(_, _)) ==
  Workbook(wb.sheet_names,
           [n \in DOMAIN wb.sheets |->
              IF n \in Domains
              THEN Table(wb.sheets[n].columns,
                         SelectSeq(wb.sheets[n].rows, LAMBDA r : ~Drop(n, r)))
              ELSE wb.sheets[n]])

\* in the document, the section of every domain sheet all of whose rows
\* Drop holds of is the header comment and the blank line after it
HeaderOnly(lines, Drop(_, _)) ==
  \A n \in Domains :
    (InSheets(xls, n) /\ \A r \in DOMAIN xls.sheets[n].rows : Drop(n, xls.sheets[n].rows[r])) =>
      \A s \in Starts(lines, n) :
        /\ lines[s + 1] = <<>>
        /\ s + 2 <= Len(lines) => \E m \in Domains : lines[s + 2] = HeaderOf(m)

\* C15 as stated: a row whose optional fields are all blank or absent
\* gives no command line: the document is the one built without these
\* rows, and a sheet of such rows only gives its header comment and the
\* blank line.
C15_BlankOptionalsEmitNothing ==
  DocCurrent =>
    /\ config_text = Rebuild(WithoutRows(xls, AllOptionalBlank))
    /\ HeaderOnly(splitlines(config_text), AllOptionalBlank)

\* C15 (amended): a row whose discriminator field is blank gives no command
\* line: the document is the one built without these rows, and a sheet of
\* such rows only gives its header comment and the blank line.
C15_BlankDiscriminatorEmitsNothing ==
  DocCurrent =>
    /\ config_text = Rebuild(WithoutRows(xls, BlankDiscriminator))
    /\ HeaderOnly(splitlines(config_text), BlankDiscriminator)

\* a written document built on a sheet whose first row has a blank
\* discriminator and whose second row has one, with all its optional
\* fields blank
C15_Witness ==
  /\ DocCurrent /\ generated # <<>>
  /\ \E n \in Domains \ {"System"} :
       /\ InSheets(xls, n) /\ Len(xls.sheets[n].rows) = 2
       /\ BlankDiscriminator(n, xls.sheets[n].rows[1])
       /\ ~BlankDiscriminator(n, xls.sheets[n].rows[2])
       /\ AllOptionalBlank(n, xls.sheets[n].rows[2])

\* the command lines the mapper of domain n emits for a row, in the order
\* it emits them: [cmds, screen], screen the lines a Hardening row adds to
\* screen_commands
RowLines(n, row) ==
  LET plain(r) == [cmds |-> r.cmds, screen |-> <<>>]
  IN  CASE n = "System"         -> plain(system_row(AsMapped(n, row)))
        [] n = "NTP"            -> plain(ntp_row(row))
        [] n = "Syslog"         -> plain(syslog_row(row))
        [] n = "TACACS"         -> plain(tacacs_row(row))
        [] n = "VLANs"          -> plain(vlan_row(row))
        [] n = "IRB_Interfaces" -> plain(irb_row(row))
        [] n = "Interfaces"     -> plain(interface_row(row, tool = "massgen"))
        [] n = "Management"     ->
             plain(management_row(row, IF tool = "v3" THEN None ELSE mgmt_ip))
        [] n = "Hardening"      ->
             [cmds |-> hardening_row(row).cmds, screen |-> hardening_row(row).screen]
        [] n = "SNMP"           -> plain(snmp_row(row))

\* the command lines of the section of domain n in the document: the lines
\* after its header up to the next domain header, without the blank lines
\* and the sub-header of the screen block
SectionCommands(lines, n) ==
  LET s == CHOOSE k \in Starts(lines, n) : TRUE
      later == {k \in (s + 1)..Len(lines) : \E m \in Domains : lines[k] = HeaderOf(m)}
      e == IF later = {} THEN Len(lines) + 1
           ELSE CHOOSE k \in later : \A j \in later : k <= j
  IN  SelectSeq(SubSeq(lines, s + 1, e - 1),
                LAMBDA line : line # <<>> /\ line # <<"# IDS Screen Configuration">>)

\* C16 as stated: in the section of every domain the lines stand in the
\* order of the rows of its sheet: the lines of row 1, then those of row 2,
\* and so on, in the Hardening section too.
C16_LinesInRowOrder ==
  DocCurrent =>
    LET lines == splitlines(config_text)
    IN  \A n \in Domains :
          InSheets(xls, n) =>
            SectionCommands(lines, n)
              = Flatten([k \in DOMAIN xls.sheets[n].rows |->
                           RowLines(n, xls.sheets[n].rows[k]).cmds
                           \o RowLines(n, xls.sheets[n].rows[k]).screen])

\* C16 (amended): in the section of every domain other than Hardening the
\* lines stand in the order of the rows; in the Hardening section the lines
\* of the features other than screen_* stand first, in the order of their
\* rows, followed by the lines of the screen_* features, in the order of
\* their rows.
C16_LinesInRowOrderScreensLast ==
  DocCurrent =>
    LET lines == splitlines(config_text)
    IN  \A n \in Domains :
          InSheets(xls, n) =>
            SectionCommands(lines, n)
              = Flatten([k \in DOMAIN xls.sheets[n].rows |->
                           RowLines(n, xls.sheets[n].rows[k]).cmds])
                \o Flatten([k \in DOMAIN xls.sheets[n].rows |->
                              RowLines(n, xls.sheets[n].rows[k]).screen])

\* a written document whose Hardening sheet has a screen_* row before a row
\* of another feature, both with a line, and a sheet of two rows with
\* different lines
C16_Witness ==
  /\ DocCurrent /\ generated # <<>>
  /\ InSheets(xls, "Hardening") /\ Len(xls.sheets["Hardening"].rows) = 2
  /\ RowLines("Hardening", xls.sheets["Hardening"].rows[1]).screen # <<>>
  /\ RowLines("Hardening", xls.sheets["Hardening"].rows[2]).cmds # <<>>
  /\ \E n \in Domains \ {"Hardening"} :
       /\ InSheets(xls, n) /\ Len(xls.sheets[n].rows) >= 2
       /\ RowLines(n, xls.sheets[n].rows[1]).cmds # <<>>
       /\ RowLines(n, xls.sheets[n].rows[2]).cmds # <<>>
       /\ RowLines(n, xls.sheets[n].rows[1]).cmds # RowLines(n, xls.sheets[n].rows[2]).cmds

\* the token a boolean-like cell stands for when every value other than
\* `token` (in any letter case) counts as `other`
AsToken(v, token, other) == IF upper(str(v)) = token THEN token ELSE other

\* the workbook wb with the Prefer cells of its NTP sheet replaced by
\* prefer(cell) and the Enabled cells of its Interfaces sheet by
\* enabled(cell)
WithBooleans(wb, prefer(_), enabled(_)) ==
  LET cell(n, c, v) == IF n = "NTP" /\ c = "Prefer" THEN prefer(v)
                       ELSE IF n = "Interfaces" /\ c = "Enabled" THEN enabled(v)
                       ELSE v
  IN  Workbook(wb.sheet_names,
               [n \in DOMAIN wb.sheets |->
                  IF n \in {"NTP", "Interfaces"}
                  THEN Table(wb.sheets[n].columns,
                             [k \in DOMAIN wb.sheets[n].rows |->
                                [c \in DOMAIN wb.sheets[n].rows[k] |->
                                   cell(n, c, wb.sheets[n].rows[k][c])]])
                  ELSE wb.sheets[n]])

\* C17 as stated: Prefer and Enabled are compared with YES and NO without
\* regard to letter case, and a value that is neither gives what NO gives:
\* the document is the one built with YES for every value that is YES in
\* some letter case and NO for every other value.
C17_OtherValuesAreNo ==
  DocCurrent =>
    config_text = Rebuild(WithBooleans(xls, LAMBDA v : AsToken(v, s_YES, s_NO),
                                            LAMBDA v : AsToken(v, s_YES, s_NO)))

\* C17 (amended): Prefer is compared with YES without regard to letter
\* case and every other value gives what NO gives; Enabled is compared with
\* NO without regard to letter case and every other value gives what YES
\* gives.
C17_PreferDefaultsNoEnabledDefaultsYes ==
  DocCurrent =>
    config_text = Rebuild(WithBooleans(xls, LAMBDA v : AsToken(v, s_YES, s_NO),
                                            LAMBDA v : AsToken(v, s_NO, s_YES)))

\* a written document built on an Interfaces sheet with an Enabled cell
\* that is neither YES nor NO and one that is NO in lower case
C17_Witness ==
  /\ DocCurrent /\ generated # <<>>
  /\ InSheets(xls, "Interfaces")
  /\ \E j, k \in DOMAIN xls.sheets["Interfaces"].rows :
       LET a == xls.sheets["Interfaces"].rows[j]
           b == xls.sheets["Interfaces"].rows[k]
       IN  /\ {"Interface", "Enabled"} \subseteq DOMAIN a \cap DOMAIN b
           /\ nonblank(a["Interface"]) /\ nonblank(b["Interface"])
           /\ upper(str(a["Enabled"])) \notin {s_YES, s_NO}
           /\ b["Enabled"] # s_NO /\ upper(str(b["Enabled"])) = s_NO

\* the number of '.' in a cell
Dots(s) == Cardinality({k \in DOMAIN s : s[k] = "."})

\* the address line of an IRB row for a base and a unit
IrbAddressLine(row, base, unit) ==
  <<"set interfaces ">> \o base \o <<" unit ">> \o unit \o <<" family inet address ">>
  \o str(row["IP Address"]) \o <<"/">> \o str(row["Prefix Length"])

\* C18 as stated: the IRB mapper emits an Interface 'base.N' as
\* 'set interfaces base unit N ...' and an Interface without '.' as
\* 'set interfaces <value> unit 0 ...', the unit defaulting to 0.
C18_IrbUnitDefaultsToZero ==
  (DocCurrent /\ InSheets(xls, "IRB_Interfaces")) =>
    LET lines == splitlines(config_text)
        df == xls.sheets["IRB_Interfaces"]
    IN  \A r \in DOMAIN df.rows :
          LET interface == df.rows[r]["Interface"]
          IN  nonblank(interface) =>
                /\ Dots(interface) = 1 =>
                     \E k \in DOMAIN lines :
                       lines[k] = IrbAddressLine(df.rows[r], split1(interface, ".")[1],
                                                 split1(interface, ".")[2])
                /\ Dots(interface) = 0 =>
                     \E k \in DOMAIN lines :
                       lines[k] = IrbAddressLine(df.rows[r], interface, <<"0">>)

\* the class of an Inventory column: the first test its lower-cased name
\* passes, in the order serial, host, ip / mgmt / management
ClassOf(col) ==
  LET lc == lower(col)
      has(sub) == \E k \in 0..(Len(lc) - Len(sub)) : SubSeq(lc, k + 1, k + Len(sub)) = sub
  IN  IF has(s_serial) THEN "serial"
      ELSE IF has(s_host) THEN "hostname"
      ELSE IF has(s_ip) \/ has(s_mgmt) \/ has(s_management) THEN "mgmt_ip"
      ELSE "none"

\* the position of the last column of a class, 0 without one
LastOf(columns, class) ==
  LET hits == {k \in DOMAIN columns : ClassOf(columns[k]) = class}
  IN  IF hits = {} THEN 0 ELSE CHOOSE k \in hits : \A j \in hits : j <= k

\* the Inventory row the locals serial, hostname, mgmt_ip were read from
LastRead == IF returned = "None" THEN i ELSE i - 1

\* C19: each Inventory column is classified by the first test that matches
\* its lower-cased name, in the order serial, host, ip / mgmt / management;
\* the field of a class is read from the last column of the class in sheet
\* order, and from that column only, so a later column whose name contains
\* 'ip', such as Description, takes the place of the management-IP column.
C19_LastColumnOfClassIsRead ==
  InLoop =>
    LET columns == stripped_columns(df_inv)
        field(key) == CASE key = "serial" -> serial [] key = "hostname" -> hostname
                        [] key = "mgmt_ip" -> mgmt_ip
    IN  \A key \in {"serial", "hostname", "mgmt_ip"} :
          /\ LastOf(columns, key) # 0
          /\ col_map[key] = columns[LastOf(columns, key)]
          /\ LastRead \in DOMAIN df_inv.rows =>
               field(key) = strip(str(df_inv.rows[LastRead][LastOf(columns, key)]))

\* a file was written for a record of an Inventory sheet whose Description
\* column follows its management-IP column: the management IP is the
\* description
C19_Witness ==
  /\ InLoop /\ generated # <<>> /\ LastRead \in DOMAIN df_inv.rows
  /\ Len(df_inv.columns) = 4
  /\ ClassOf(df_inv.columns[3]) = "mgmt_ip"
  /\ col_map["mgmt_ip"] = df_inv.columns[4]
  /\ mgmt_ip = df_inv.rows[LastRead][4]
  /\ mgmt_ip # df_inv.rows[LastRead][3]

\* a document of the legacy single-device flow of the inventory generator
LegacyDoc == tool = "massgen" /\ ~InSheets(xls, "Inventory") /\ DocCurrent

\* the IP Address cell of the first Management row, blank without one
FirstManagementIp ==
  IF InSheets(xls, "Management") /\ xls.sheets["Management"].rows # <<>>
  THEN xls.sheets["Management"].rows[1]["IP Address"]
  ELSE NaN

\* C20: in the legacy single-device flow the management IP given to
\* build_config is the IP Address of the first Management row, or 0.0.0.0
\* when there is no Management sheet, no row, or that cell is blank; it
\* overrides the address of every Management row: each row with an
\* interface has its address line with this IP, and no Management address
\* line carries another address.
C20_LegacyFirstRowIpOnEveryRow ==
  LegacyDoc =>
    LET lines == splitlines(config_text)
        rows  == IF InSheets(xls, "Management") THEN xls.sheets["Management"].rows ELSE <<>>
        named == {r \in DOMAIN rows : nonblank(rows[r]["Interface"])}
    IN  /\ mgmt_ip = IF notna(FirstManagementIp) THEN FirstManagementIp ELSE s_0000
        /\ lines[5] = <<"# Management IP      : ">> \o mgmt_ip
        /\ \A r \in named : \E k \in DOMAIN lines : lines[k] = AddressLine(rows[r], mgmt_ip)
        /\ \A k \in DOMAIN lines :
             IsManagementAddressLine(lines, k) =>
               \E r \in named : lines[k] = AddressLine(rows[r], mgmt_ip)

\* a legacy document written for a Management sheet of two rows with
\* interface whose second row has an IP Address of its own
C20_Witness ==
  /\ LegacyDoc /\ generated # <<>>
  /\ InSheets(xls, "Management") /\ Len(xls.sheets["Management"].rows) = 2
  /\ \A r \in 1..2 : nonblank(xls.sheets["Management"].rows[r]["Interface"])
  /\ notna(xls.sheets["Management"].rows[2]["IP Address"])
  /\ xls.sheets["Management"].rows[2]["IP Address"] # mgmt_ip
  /\ mgmt_ip # s_0000
====
